---- MODULE Spec2Model ----
(***************************************************************************)
(* HeartPi: the risk scoring and synthetic signal generation engine.       *)
(*                                                                         *)
(*   FamilyHealth            FamilyHealth.h / FamilyHealth.cpp             *)
(*   assessHeartHealth       Calculations.cpp                              *)
(*   RandomNumberGenerator   RandomNumberGenerator.h / .cpp                *)
(*                                                                         *)
(* The C++ doubles (sampling bounds and simulated readings) are modelled   *)
(* as fixed-point integers counting hundredths: 60 is 6000, 0.05 is 5,     *)
(* -0.1 is -10.  A std::vector indexed 0..3 is a function on 0..3.         *)
(***************************************************************************)
EXTENDS Integers, Sequences, FiniteSets, TLC

VARIABLES
    family,      \* the FamilyHealth object (FamilyHealth.h:24-31)
    riskScore,   \* assessHeartHealth's local riskScore, as printed at Calculations.cpp:111
    reading,     \* the five out-parameters of assessHeartHealth (Calculations.cpp:42-44)
    result,      \* the std::string assessHeartHealth returned; "" before any call
    prev,        \* history: family, riskScore and result of the call before the last one
    ret,         \* the last hasFamilyDisease call: its argument and what it returned
    stored,      \* history: per index 0..3, the value the caller last passed to setFamilyDiseaseHistory
    rng,         \* the last RandomNumberGenerator(min, max).generate(): arguments and outcome
    cout,        \* std::cout: what was inserted so far, one element per insertion (a text, or a number)
    lastSet,     \* the last call, if it was setFamilyDiseaseHistory: arguments and the object before it
    thread,      \* per calling thread: its call of assessHeartHealth (arguments, locals, position)
    samplers,    \* memory: the RandomNumberGenerator object at each address that holds one
    screen,      \* the HeartHealthScreen object (HeartHealthScreen.h:161-178)
    timers,      \* memory: the QTimer objects of the screen that exist, by address
    userdata,    \* the file userdata.csv: whether it exists, and its lines as lists of fields
    window,      \* MainWindow: currentUsername, whether surveyFormScreen exists, the widget shown
    trace,       \* history: the last operation, the assessments it ran, the rows it appended
    survey,      \* the SurveyScreen object: its two input fields, and what its last saveUserData showed and emitted
    login,       \* the ResultsLoginScreen object: its account list, selection and password field
    notify,      \* the NotifyCaregiverScreen object shown last, and its last attemptSendAlert
    mail         \* the last EmailSender::sendEmail call: arguments, SMTP dialogue, return value

\* The state of the callers that run assessHeartHealth side by side.
concVars == <<thread, samplers>>

\* The state of the graphical application.
guiVars == <<screen, timers, userdata, window, trace>>

\* What a call of assessHeartHealth or of a FamilyHealth method leaves behind
\* for its caller, apart from the object and standard output.
callVars == <<riskScore, reading, result, prev, ret, stored, rng, lastSet>>

\* The screens that work on the accounts of userdata.csv, and the mailer.
acctVars == <<survey, login, notify, mail>>

vars == <<family, riskScore, reading, result, prev, ret, stored, rng, cout, lastSet, concVars, guiVars, acctVars>>

(***************************************************************************)
(* Bounds of the model.                                                    *)
(***************************************************************************)
\* How far outside its documented domain an ordinal field or an index may lie.
Slack == 1
\* A sampler draw is one of the SampleSteps evenly spaced points of [min, max)
\* that start at min, or the last value below max.
SampleSteps == 2
\* Sampler bounds tried by the stand-alone sampler run from 0 to MaxArg.
MaxArg == 6
\* Values the int fields of a FamilyHealth object take in the object life cycle.
MaxObjInt == 1
\* How far outside 0..3 a family-disease index argument may lie.
IndexSlack == 2
\* How many times assessHeartHealth is called in one run.
MaxCalls == 2
\* How many console surveys (gatherInfo) one object answers.
MaxSurveys == 1

(***************************************************************************)
(* The documented domains of the survey answers (FamilyHealth.cpp:39-97).  *)
(***************************************************************************)
NumAgeGroups == 6
NumSleepCategories == 5
NumExerciseCategories == 4
NumDietTypes == 6
NumFamilyDiseases == 4

DiseaseIndex == 0..(NumFamilyDiseases - 1)

\* FamilyHealth::FamilyHealth, the label list (FamilyHealth.cpp:25-28).
DiseaseLabels ==
    [i \in DiseaseIndex |->
        CASE i = 0 -> "Heart attack or coronary artery disease"
          [] i = 1 -> "Diabetes (Type 2)"
          [] i = 2 -> "High cholesterol"
          [] i = 3 -> "High blood pressure"]

\* familyDiseasesHistory(4, false) (FamilyHealth.cpp:23).
NoDiseases == [i \in DiseaseIndex |-> FALSE]

Histories == [DiseaseIndex -> BOOLEAN]

(***************************************************************************)
(* FamilyHealth getters (FamilyHealth.cpp:104-175).                        *)
(***************************************************************************)
getAgeGroup(f) == f.ageGroup
getGender(f) == f.gender
getSleepHours(f) == f.sleepHours
getExerciseFrequency(f) == f.exerciseFrequency
getDietType(f) == f.dietType
getIsSmoker(f) == f.isSmoker

\* static_cast<int>(familyDiseasesHistory.size())
getFamilyHistoryCount(f) == Cardinality(DOMAIN f.familyDiseasesHistory)

\* A plausible slip: the range check is dropped and the index wraps.
hasFamilyDisease_NoRangeCheck(f, diseaseIndex) ==
    f.familyDiseasesHistory[diseaseIndex % NumFamilyDiseases]

hasFamilyDisease(f, diseaseIndex) ==
    IF diseaseIndex < 0 \/ diseaseIndex >= getFamilyHistoryCount(f)
    THEN FALSE
    ELSE f.familyDiseasesHistory[diseaseIndex]

(***************************************************************************)
(* assessHeartHealth, the scoring part (Calculations.cpp:46-108).  Each    *)
(* operator is one numbered block of the function; riskScore is their sum. *)
(***************************************************************************)
\* A plausible slip: band 4 is left out of the second test and falls to the else.
AgeScore_Band4Missing(f) ==
    IF getAgeGroup(f) = 1 \/ getAgeGroup(f) = 2 THEN 1
    ELSE IF getAgeGroup(f) = 3 THEN 2
    ELSE 3

\* A plausible slip: the bands are cut one group early.
AgeScore_ShiftedBands(f) ==
    IF getAgeGroup(f) = 1 THEN 1
    ELSE IF getAgeGroup(f) = 2 \/ getAgeGroup(f) = 3 THEN 2
    ELSE 3

\* 1) Age-based
AgeScore(f) ==
    IF getAgeGroup(f) = 1 \/ getAgeGroup(f) = 2 THEN 1
    ELSE IF getAgeGroup(f) = 3 \/ getAgeGroup(f) = 4 THEN 2
    ELSE 3

\* 2) Gender-based: false => Female, true => Male
GenderScore(f) ==
    IF ~getGender(f)
    THEN (IF getAgeGroup(f) <= 3 THEN 1 ELSE 3)
    ELSE (IF getAgeGroup(f) <= 3 THEN 2 ELSE 3)

\* 3) Sleep hours
SleepScore(f) ==
    IF getSleepHours(f) = 1 \/ getSleepHours(f) = 5 THEN 3
    ELSE IF getSleepHours(f) = 2 THEN 2
    ELSE 1

\* A plausible slip: "never" scores like "1-2 times a week".
ExerciseScore_NeverAsRare(f) ==
    IF getExerciseFrequency(f) = 1 THEN 2
    ELSE IF getExerciseFrequency(f) = 2 THEN 2
    ELSE 1

\* 4) Exercise frequency
ExerciseScore(f) ==
    IF getExerciseFrequency(f) = 1 THEN 3
    ELSE IF getExerciseFrequency(f) = 2 THEN 2
    ELSE 1

\* A plausible slip: the four tests are chained with else, so only the first
\* disease present is counted.
FamilyDiseaseScore_ElseIf(f) ==
    IF hasFamilyDisease(f, 0) THEN 2
    ELSE IF hasFamilyDisease(f, 1) THEN 1
    ELSE IF hasFamilyDisease(f, 2) THEN 2
    ELSE IF hasFamilyDisease(f, 3) THEN 2
    ELSE 0

\* 5) Family disease(s): each one present adds to the score
FamilyDiseaseScore(f) ==
      (IF hasFamilyDisease(f, 0) THEN 2 ELSE 0)
    + (IF hasFamilyDisease(f, 1) THEN 1 ELSE 0)
    + (IF hasFamilyDisease(f, 2) THEN 2 ELSE 0)
    + (IF hasFamilyDisease(f, 3) THEN 2 ELSE 0)

\* A plausible slip: the chain ends in a plain else, as the other factors do.
DietScore_FinalElse(f) ==
    LET dt == getDietType(f)
    IN  IF dt = 4 THEN 3
        ELSE IF dt = 1 \/ dt = 2 \/ dt = 3 \/ dt = 6 THEN 1
        ELSE 2

\* 6) Diet type: no final else, so any other value adds nothing
DietScore(f) ==
    LET dt == getDietType(f)
    IN  IF dt = 4 THEN 3
        ELSE IF dt = 1 \/ dt = 2 \/ dt = 3 \/ dt = 6 THEN 1
        ELSE IF dt = 5 THEN 2
        ELSE 0

\* 7) Smoking
SmokingScore(f) == IF getIsSmoker(f) THEN 3 ELSE 1

\* A plausible slip: riskScore is declared static, so a call starts from the
\* total the call before left behind.
RiskScore_Static(f) ==
    riskScore + AgeScore(f) + GenderScore(f) + SleepScore(f) + ExerciseScore(f)
      + FamilyDiseaseScore(f) + DietScore(f) + SmokingScore(f)

\* int riskScore = 0; then the seven blocks in order, none skipped
RiskScore(f) ==
    0 + AgeScore(f) + GenderScore(f) + SleepScore(f) + ExerciseScore(f)
      + FamilyDiseaseScore(f) + DietScore(f) + SmokingScore(f)

(***************************************************************************)
(* assessHeartHealth, simulation and message (Calculations.cpp:113-143).   *)
(***************************************************************************)
ModerateThreshold == 10
HighThreshold == 18

\* A plausible slip: the first two tests are inclusive, unlike the message's.
SensorRanges_Inclusive(score) ==
    IF score <= ModerateThreshold THEN
        [heartRate   |-> <<6000, 8000>>,
         sysBP       |-> <<11000, 12000>>,
         diasBP      |-> <<7000, 8000>>,
         cholesterol |-> <<15000, 20000>>,
         ecg         |-> <<5, 15>>]
    ELSE IF score <= HighThreshold THEN
        [heartRate   |-> <<8000, 9500>>,
         sysBP       |-> <<12000, 13500>>,
         diasBP      |-> <<8000, 9000>>,
         cholesterol |-> <<20000, 24000>>,
         ecg         |-> <<2, 18>>]
    ELSE
        [heartRate   |-> <<9500, 12000>>,
         sysBP       |-> <<13500, 16000>>,
         diasBP      |-> <<9000, 11000>>,
         cholesterol |-> <<24000, 30000>>,
         ecg         |-> <<-10, 30>>]

\* A plausible slip: the Low heart rate range runs on to 85, into the
\* Moderate one.
SensorRanges_LowHeartRateOverlaps(score) ==
    IF score < ModerateThreshold THEN
        [heartRate   |-> <<6000, 8500>>,
         sysBP       |-> <<11000, 12000>>,
         diasBP      |-> <<7000, 8000>>,
         cholesterol |-> <<15000, 20000>>,
         ecg         |-> <<5, 15>>]
    ELSE IF score < HighThreshold THEN
        [heartRate   |-> <<8000, 9500>>,
         sysBP       |-> <<12000, 13500>>,
         diasBP      |-> <<8000, 9000>>,
         cholesterol |-> <<20000, 24000>>,
         ecg         |-> <<2, 18>>]
    ELSE
        [heartRate   |-> <<9500, 12000>>,
         sysBP       |-> <<13500, 16000>>,
         diasBP      |-> <<9000, 11000>>,
         cholesterol |-> <<24000, 30000>>,
         ecg         |-> <<-10, 30>>]

\* The (min, max) pairs handed to RandomNumberGenerator, in hundredths.
SensorRanges(score) ==
    IF score < ModerateThreshold THEN
        [heartRate   |-> <<6000, 8000>>,
         sysBP       |-> <<11000, 12000>>,
         diasBP      |-> <<7000, 8000>>,
         cholesterol |-> <<15000, 20000>>,
         ecg         |-> <<5, 15>>]
    ELSE IF score < HighThreshold THEN
        [heartRate   |-> <<8000, 9500>>,
         sysBP       |-> <<12000, 13500>>,
         diasBP      |-> <<8000, 9000>>,
         cholesterol |-> <<20000, 24000>>,
         ecg         |-> <<2, 18>>]
    ELSE
        [heartRate   |-> <<9500, 12000>>,
         sysBP       |-> <<13500, 16000>>,
         diasBP      |-> <<9000, 11000>>,
         cholesterol |-> <<24000, 30000>>,
         ecg         |-> <<-10, 30>>]

\* A plausible slip: the High test is strict.
RiskMessage_StrictHigh(score) ==
    IF score > HighThreshold THEN "High risk of heart disease."
    ELSE IF score >= ModerateThreshold THEN "Moderate risk of heart disease."
    ELSE "Low risk of heart disease. You are healthy!"

\* Final risk assessment
RiskMessage(score) ==
    IF score >= HighThreshold THEN "High risk of heart disease."
    ELSE IF score >= ModerateThreshold THEN "Moderate risk of heart disease."
    ELSE "Low risk of heart disease. You are healthy!"

(***************************************************************************)
(* RandomNumberGenerator (RandomNumberGenerator.cpp:21-35).  The engine is *)
(* seeded from std::random_device, so what generate() returns is a free    *)
(* choice of the half-open [min, max).  Draw u of 0..SampleSteps-1 stands  *)
(* for the canonical value u / SampleSteps of [0, 1) that                  *)
(* uniform_real_distribution scales to min + (max - min) * u / SampleSteps *)
(* and draw SampleSteps for the largest canonical value, scaled to the     *)
(* last value before max: one unit of the values' scale away from it, on   *)
(* the side of min.  The upper bound itself is not drawn.                  *)
(***************************************************************************)
Draws == 0..SampleSteps

\* The draw of the last value before max.
TopDraw == SampleSteps

generate(min, max, u) ==
    IF u = TopDraw
    THEN IF max > min THEN max - 1 ELSE IF max < min THEN max + 1 ELSE min
    ELSE min + ((max - min) * u) \div SampleSteps

\* RandomNumberGenerator(min, max).generate() with min <= max.
Sample(min, max) == {generate(min, max, u) : u \in Draws}

(***************************************************************************)
(* The whole of assessHeartHealth (Calculations.cpp:42-144) as one step.   *)
(* u gives the draw of each of the five samplers the call constructs.      *)
(***************************************************************************)
ReadingFields == {"heartRate", "sysBP", "diasBP", "cholesterol", "ecg"}

\* The three insertions of Calculations.cpp:111, std::endl being the last.
RiskScoreLine(score) == <<"Risk Score: ", score, "\n">>

\* How many insertions one call of assessHeartHealth makes.
InsertionsPerCall == Len(RiskScoreLine(0))

\* Before the first call the caller's five doubles hold no value yet
\* (HeartHealthScreen.cpp:216); 0 stands for that and no formula reads it.
NoReading == [k \in ReadingFields |-> 0]

Called == result # ""

assessHeartHealth(u) ==
    LET score == RiskScore(family)
        rg == SensorRanges(score)
    IN  /\ Len(cout) < MaxCalls * InsertionsPerCall
        /\ riskScore' = score
        /\ cout' = cout \o RiskScoreLine(score)
        /\ reading' = [k \in ReadingFields |-> generate(rg[k][1], rg[k][2], u[k])]
        /\ result' = RiskMessage(score)
        /\ prev' = IF Called
                   THEN <<[family |-> family, riskScore |-> riskScore, result |-> result]>>
                   ELSE <<>>
        /\ UNCHANGED <<family, ret, stored, rng, lastSet, concVars, guiVars, acctVars>>

\* Every combination of draws of the five samplers.
AllDraws == [ReadingFields -> Draws]

\* The two combinations in which all five samplers draw their lowest, or
\* all five their highest, value.
ExtremeDraws == {[k \in ReadingFields |-> d] : d \in {0, TopDraw}}

(***************************************************************************)
(* Profiles.                                                               *)
(***************************************************************************)
FamilyHealthObject(age, g, sleep, ex, diet, smoker, hist) ==
    [ageGroup |-> age, gender |-> g, sleepHours |-> sleep,
     exerciseFrequency |-> ex, dietType |-> diet, isSmoker |-> smoker,
     familyDiseases |-> DiseaseLabels, familyDiseasesHistory |-> hist]

\* Every profile whose fields are all inside their documented domains: the
\* ordinals the menus of the survey offer (ResultsLoginScreen.h:148-156),
\* with every family history.  This is the set the scoring is stated for,
\* not what gatherInfo or the setters can store: neither checks a range
\* (OutOfRangeProfiles, GatherInfo).
InDomainProfiles ==
    {FamilyHealthObject(age, g, sleep, ex, diet, smoker, hist) :
        age \in 1..NumAgeGroups, g \in BOOLEAN, sleep \in 1..NumSleepCategories,
        ex \in 1..NumExerciseCategories, diet \in 1..NumDietTypes,
        smoker \in BOOLEAN, hist \in Histories}

InDomain(f) ==
    /\ f.ageGroup \in 1..NumAgeGroups
    /\ f.sleepHours \in 1..NumSleepCategories
    /\ f.exerciseFrequency \in 1..NumExerciseCategories
    /\ f.dietType \in 1..NumDietTypes

InitRest ==
    /\ riskScore = 0
    /\ reading = NoReading
    /\ result = ""
    /\ prev = <<>>
    /\ ret = <<>>
    /\ stored = NoDiseases
    /\ rng = <<>>
    /\ cout = <<>>
    /\ lastSet = <<>>
    /\ thread = <<>>
    /\ samplers = <<>>
    /\ screen = <<>>
    /\ timers = <<>>
    /\ userdata = <<>>
    /\ window = <<>>
    /\ trace = <<>>
    /\ survey = <<>>
    /\ login = <<>>
    /\ notify = <<>>
    /\ mail = <<>>

(***************************************************************************)
(* Spec: assessHeartHealth called, any number of times, on any profile     *)
(* whose fields are inside their domains.                                  *)
(***************************************************************************)
Init ==
    /\ family \in InDomainProfiles
    /\ InitRest

Next == \E u \in ExtremeDraws : assessHeartHealth(u)

Spec == Init /\ [][Next]_vars

(***************************************************************************)
(* SpecOutOfRange: assessHeartHealth on profiles whose ordinal fields may  *)
(* lie up to Slack outside their domains (the setters store any int);      *)
(* the family history is all absent or all present.                        *)
(***************************************************************************)
AllDiseases == [i \in DiseaseIndex |-> TRUE]

Ordinals(n) == (1 - Slack)..(n + Slack)

OutOfRangeProfiles ==
    {FamilyHealthObject(age, g, sleep, ex, diet, smoker, hist) :
        age \in Ordinals(NumAgeGroups), g \in BOOLEAN,
        sleep \in Ordinals(NumSleepCategories),
        ex \in Ordinals(NumExerciseCategories),
        diet \in Ordinals(NumDietTypes),
        smoker \in BOOLEAN, hist \in {NoDiseases, AllDiseases}}

InitOutOfRange ==
    /\ family \in OutOfRangeProfiles
    /\ InitRest

NextOutOfRange == \E u \in ExtremeDraws : assessHeartHealth(u)

SpecOutOfRange == InitOutOfRange /\ [][NextOutOfRange]_vars

(***************************************************************************)
(* SpecSample: assessHeartHealth with every combination of sampler draws,  *)
(* on profiles that cover the three tiers and both sides of each           *)
(* threshold (scores 6, 9, 10, 17, 18 and 19).                             *)
(***************************************************************************)
SampleProfiles ==
    {FamilyHealthObject(x[1], FALSE, 3, 3, 6, x[2], x[3]) :
        x \in {<<1, FALSE, NoDiseases>>, <<4, FALSE, NoDiseases>>,
               <<5, FALSE, NoDiseases>>, <<5, FALSE, AllDiseases>>,
               <<4, TRUE, AllDiseases>>, <<5, TRUE, AllDiseases>>}}

InitSample ==
    /\ family \in SampleProfiles
    /\ InitRest

\* The draws of the five samplers in these calls: the heart rate and the
\* two pressures draw each on its own, cholesterol and ecg as the heart
\* rate does.  Every field takes every draw, and the two pressures every
\* pair of draws.
SampleDraws == {u \in AllDraws : u.cholesterol = u.heartRate /\ u.ecg = u.heartRate}

NextSample == \E u \in SampleDraws : assessHeartHealth(u)

SpecSample == InitSample /\ [][NextSample]_vars

(***************************************************************************)
(* SpecObject: the life cycle of one FamilyHealth object.  The constructor *)
(* (FamilyHealth.cpp:22-29) initialises the two vectors only: the four int *)
(* and the two bool members start with indeterminate values, any int and   *)
(* any bool.                                                               *)
(***************************************************************************)
\* The largest int; the smallest is one further from 0.
IntMax == 2147483647

IntMin == 0 - IntMax - 1

\* The ints passed to the setters and typed as console answers.
ObjInts == 0..MaxObjInt

\* What an int that was never written may hold: whatever its storage held,
\* any int.  In static storage that is 0.
IndeterminateInts == IntMin..IntMax

IndexArgs == (0 - IndexSlack)..(NumFamilyDiseases - 1 + IndexSlack)

\* FamilyHealth::FamilyHealth (FamilyHealth.cpp:22-29): the objects the
\* constructor can leave.  It writes the two vectors and nothing else.
FamilyHealth_FamilyHealth ==
    [ageGroup : IndeterminateInts, gender : BOOLEAN,
     sleepHours : IndeterminateInts, exerciseFrequency : IndeterminateInts,
     dietType : IndeterminateInts, isSmoker : BOOLEAN,
     familyDiseases : {DiseaseLabels}, familyDiseasesHistory : {NoDiseases}]

(***************************************************************************)
(* FamilyHealth::gatherInfo (FamilyHealth.cpp:38-97): seventeen insertions *)
(* into std::cout and ten extractions of an int from std::cin, none of     *)
(* them checked.  Standard input is the answers it holds, in order, and    *)
(* what follows them: the end of the input, or a word that is no number.   *)
(***************************************************************************)
Prompts ==
    <<"Q1) What is your age?\n1. 18 - 24\n2. 25 - 34\n3. 35 - 44\n4. 45 - 54\n5. 55 - 64\n6. 65+\n",
      "Q2) What is your gender assigned at birth?\n1. Female\n2. Male\n",
      "Q3) How many hours a night do you sleep?\n1. Less than 4 Hours\n2. 4 - 5 Hours\n3. 6 - 7 Hours\n4. 7 - 8 Hours\n5. 8+ Hours\n",
      "Q4) How often do you exercise?\n1. Never\n2. 1 - 2 times a week\n3. 3 - 5 times a week\n4. 6 - 7 times a week\n",
      "Q5) What diseases run in your family? (1 for Yes, 0 for No)\n",
      "a) Heart attack or coronary artery disease: ",
      "b) Diabetes (Type 2): ",
      "c) High cholesterol: ",
      "d) High blood pressure: ",
      "Q6) What does your average diet look like?\n",
      "1. High Protein Diet (lean meats, fish, eggs, etc.)\n",
      "2. Low Carb Diet (vegetables, healthy fats, minimizing breads, etc.)\n",
      "3. Vegetarian Diet\n",
      "4. Western Diet (highly processed, refined sugars)\n",
      "5. Vegan Diet\n",
      "6. Balanced Diet\n",
      "Q7) Are you a smoker? (1 for Yes, 0 for No): ">>

\* The ten extractions in their order: ageGroup, recordedGender, sleepHours,
\* exerciseFrequency, recordedCAD, recordedDiabetes, recordedCholesterol,
\* recordedBP, dietType, recordedSmoking.
NumAnswers == 10

\* std::cin >> x as the k-th extraction, x holding old before it.  While the
\* input has a k-th answer, x becomes that answer.  At a word that is no
\* number num_get stores 0 and sets failbit.  At the end of the input, and
\* in every extraction after a failed one, the sentry fails and x is left
\* as it was.
Extract(stdin, k, old) ==
    IF k <= Len(stdin.answers) THEN stdin.answers[k]
    ELSE IF k = Len(stdin.answers) + 1 /\ stdin.next = "word" THEN 0
    ELSE old

\* The object after gatherInfo.  The six recorded... ints are uninitialised
\* locals: locals[k] is what the k-th of the ten holds before its extraction.
GatherInfo(f, stdin, locals) ==
    [f EXCEPT !.ageGroup = Extract(stdin, 1, @),
              !.gender = (Extract(stdin, 2, locals[2]) = 2),
              !.sleepHours = Extract(stdin, 3, @),
              !.exerciseFrequency = Extract(stdin, 4, @),
              !.familyDiseasesHistory =
                  [i \in DiseaseIndex |-> (Extract(stdin, 5 + i, locals[5 + i]) = 1)],
              !.dietType = Extract(stdin, 9, @),
              !.isSmoker = (Extract(stdin, 10, locals[10]) = 1)]

\* ret is what the last call returned: the setters return void.
SetterFrame ==
    /\ ret' = <<>>
    /\ UNCHANGED <<riskScore, reading, result, prev, rng, cout, concVars, guiVars, acctVars>>

setAgeGroup(value) ==
    /\ family' = [family EXCEPT !.ageGroup = value]
    /\ lastSet' = <<>>
    /\ SetterFrame /\ UNCHANGED stored

setGender(value) ==
    /\ family' = [family EXCEPT !.gender = value]
    /\ lastSet' = <<>>
    /\ SetterFrame /\ UNCHANGED stored

setSleepHours(value) ==
    /\ family' = [family EXCEPT !.sleepHours = value]
    /\ lastSet' = <<>>
    /\ SetterFrame /\ UNCHANGED stored

setExerciseFrequency(value) ==
    /\ family' = [family EXCEPT !.exerciseFrequency = value]
    /\ lastSet' = <<>>
    /\ SetterFrame /\ UNCHANGED stored

setDietType(value) ==
    /\ family' = [family EXCEPT !.dietType = value]
    /\ lastSet' = <<>>
    /\ SetterFrame /\ UNCHANGED stored

setIsSmoker(value) ==
    /\ family' = [family EXCEPT !.isSmoker = value]
    /\ lastSet' = <<>>
    /\ SetterFrame /\ UNCHANGED stored

\* A plausible slip: the lower bound of the index check is exclusive.
StoreFamilyDisease_ExclusiveLow(f, index, value) ==
    IF index > 0 /\ index < Cardinality(DOMAIN f.familyDiseasesHistory)
    THEN [f EXCEPT !.familyDiseasesHistory[index] = value]
    ELSE f

\* A plausible slip: an index past the end grows the vector instead of being
\* ignored.
StoreFamilyDisease_Grows(f, index, value) ==
    IF index >= 0
    THEN [f EXCEPT !.familyDiseasesHistory =
            [i \in DiseaseIndex \cup (0..index) |->
                IF i = index THEN value
                ELSE IF i \in DOMAIN f.familyDiseasesHistory
                     THEN f.familyDiseasesHistory[i]
                     ELSE FALSE]]
    ELSE f

\* The body of setFamilyDiseaseHistory (FamilyHealth.h:159-163).
StoreFamilyDisease(f, index, value) ==
    IF index >= 0 /\ index < Cardinality(DOMAIN f.familyDiseasesHistory)
    THEN [f EXCEPT !.familyDiseasesHistory[index] = value]
    ELSE f

\* stored records what the caller asked for: the value passed for an index
\* of 0..3, whatever the method then does with it.
setFamilyDiseaseHistory(index, value) ==
    /\ family' = StoreFamilyDisease(family, index, value)
    /\ stored' = IF index \in DiseaseIndex
                 THEN [stored EXCEPT ![index] = value]
                 ELSE stored
    /\ lastSet' = <<[index |-> index, value |-> value, before |-> family]>>
    /\ SetterFrame

\* A call of hasFamilyDisease(diseaseIndex) on the object.
hasFamilyDiseaseCall(diseaseIndex) ==
    /\ ret' = <<[diseaseIndex |-> diseaseIndex,
                 value |-> hasFamilyDisease(family, diseaseIndex)]>>
    /\ lastSet' = <<>>
    /\ UNCHANGED <<family, stored, riskScore, reading, result, prev, rng, cout, concVars, guiVars, acctVars>>

\* A console survey: gatherInfo on what standard input holds.  It stores
\* all four flags, and returns void.
gatherInfo(stdin, locals) ==
    /\ Len(cout) < MaxSurveys * Len(Prompts)
    /\ family' = GatherInfo(family, stdin, locals)
    /\ cout' = cout \o Prompts
    /\ stored' = family'.familyDiseasesHistory
    /\ lastSet' = <<>>
    /\ ret' = <<>>
    /\ UNCHANGED <<riskScore, reading, result, prev, rng, concVars, guiVars, acctVars>>

\* The answer sheets typed at the console: every ordinal answered with the
\* same small int, every yes/no question with the same choice.
Sheet(v, yes) ==
    <<v, IF yes THEN 2 ELSE 1, v, v,
      IF yes THEN 1 ELSE 0, IF yes THEN 1 ELSE 0, IF yes THEN 1 ELSE 0,
      IF yes THEN 1 ELSE 0, v, IF yes THEN 1 ELSE 0>>

\* How much of a sheet standard input holds: nothing, the answers up to
\* question 4, or all of them.
AnswerCounts == {0, 4, NumAnswers}

StdinInputs ==
    {[answers |-> SubSeq(Sheet(v, yes), 1, n), next |-> x] :
        v \in ObjInts, yes \in BOOLEAN, n \in AnswerCounts \ {NumAnswers},
        x \in {"end", "word"}}
    \cup {[answers |-> Sheet(v, yes), next |-> "end"] : v \in ObjInts, yes \in BOOLEAN}

\* What the uninitialised locals hold: here every one of them the same int.
UninitialisedLocals == {[k \in 1..NumAnswers |-> v] : v \in {0, 1, 2}}

\* The objects built in storage that was zero: the all-zero object of
\* static storage and of fresh pages, and the object 4, 0, 0, 0 of a stack
\* frame whose first word held an earlier value.
ZeroedObjects ==
    {FamilyHealthObject(0, FALSE, 0, 0, 0, FALSE, NoDiseases),
     FamilyHealthObject(4, FALSE, 0, 0, 0, FALSE, NoDiseases)}

\* The constructed objects the specifications start from: those, and the
\* objects of a storage whose four words are both ends of the range of
\* int, -1 and the byte pattern 0x01010101.
ConstructedObjects ==
    ZeroedObjects
    \cup {FamilyHealthObject(IntMin, g, 0 - 1, 16843009, IntMax, smoker, NoDiseases) :
            g \in BOOLEAN, smoker \in BOOLEAN}

InitObject ==
    /\ family \in ConstructedObjects
    /\ family \in FamilyHealth_FamilyHealth
    /\ InitRest

NextObject ==
    \/ \E stdin \in StdinInputs, locals \in UninitialisedLocals : gatherInfo(stdin, locals)
    \/ \E v \in ObjInts : setAgeGroup(v)
    \/ \E v \in BOOLEAN : setGender(v)
    \/ \E v \in ObjInts : setSleepHours(v)
    \/ \E v \in ObjInts : setExerciseFrequency(v)
    \/ \E v \in ObjInts : setDietType(v)
    \/ \E v \in BOOLEAN : setIsSmoker(v)
    \/ \E i \in IndexArgs, v \in BOOLEAN : setFamilyDiseaseHistory(i, v)
    \/ \E i \in IndexArgs : hasFamilyDiseaseCall(i)

SpecObject == InitObject /\ [][NextObject]_vars

(***************************************************************************)
(* SpecSetters: an object after construction and any sequence of setter    *)
(* calls and hasFamilyDisease queries, the console survey left out.  The   *)
(* object is built in storage that was zero.                               *)
(***************************************************************************)
InitSetters ==
    /\ family \in ZeroedObjects
    /\ family \in FamilyHealth_FamilyHealth
    /\ InitRest

NextSetters ==
    \/ \E v \in ObjInts : setAgeGroup(v)
    \/ \E v \in BOOLEAN : setGender(v)
    \/ \E v \in ObjInts : setSleepHours(v)
    \/ \E v \in ObjInts : setExerciseFrequency(v)
    \/ \E v \in ObjInts : setDietType(v)
    \/ \E v \in BOOLEAN : setIsSmoker(v)
    \/ \E i \in IndexArgs, v \in BOOLEAN : setFamilyDiseaseHistory(i, v)
    \/ \E i \in IndexArgs : hasFamilyDiseaseCall(i)

SpecSetters == InitSetters /\ [][NextSetters]_vars

(***************************************************************************)
(* SpecSampler: RandomNumberGenerator(min, max).generate() on its own      *)
(* (RandomNumberGenerator.cpp:21-35), for any pair of bounds.  The         *)
(* constructor hands min and max to std::uniform_real_distribution         *)
(* unchecked.  With min > max that is undefined behaviour; what a build    *)
(* does with it is one of:                                                 *)
(*   - "returned": the bounds are stored as given and generate() scales    *)
(*     the canonical draw by (max - min), a value between max and min;     *)
(*   - "aborted": a standard library built with assertions terminates the  *)
(*     process in the distribution's constructor.                          *)
(* Nothing in the class throws or returns an error.                        *)
(***************************************************************************)
SamplerArgs == 0..MaxArg

Returned(min, max, v) == [min |-> min, max |-> max, outcome |-> "returned", value |-> v]

Aborted(min, max) == [min |-> min, max |-> max, outcome |-> "aborted", value |-> 0]

RandomNumberGenerator_generate(min, max) ==
    \* a terminated process makes no further call
    /\ IF rng = <<>> THEN TRUE ELSE rng[1].outcome # "aborted"
    /\ \/ \E v \in Sample(min, max) : rng' = <<Returned(min, max, v)>>
       \/ /\ min > max
          /\ rng' = <<Aborted(min, max)>>
    /\ UNCHANGED <<family, riskScore, reading, result, prev, ret, stored, cout, lastSet, concVars, guiVars, acctVars>>

InitSampler ==
    /\ family \in {FamilyHealthObject(1, FALSE, 3, 3, 6, FALSE, NoDiseases)}
    /\ InitRest

NextSampler == \E min \in SamplerArgs, max \in SamplerArgs : RandomNumberGenerator_generate(min, max)

SpecSampler == InitSampler /\ [][NextSampler]_vars

(***************************************************************************)
(* SpecThreads: assessHeartHealth called once by each of several threads,  *)
(* each on its own profile and its own five output variables.  The body    *)
(* (Calculations.cpp:42-144) is cut at every point where it touches a      *)
(* sampler: each RandomNumberGenerator(min, max).generate() is a           *)
(* construction of a temporary followed by a draw from it.                 *)
(***************************************************************************)
NumThreads == 2

Threads == 1..NumThreads

\* The order in which the five outputs are assigned (Calculations.cpp:116-120).
FieldOrder == <<"heartRate", "sysBP", "diasBP", "cholesterol", "ecg">>

\* One profile of each tier: Low, High, Moderate.  Thread t calls with the
\* t-th of them, a fourth thread with the first again.
ThreadProfiles ==
    <<FamilyHealthObject(1, FALSE, 3, 3, 6, FALSE, NoDiseases),
      FamilyHealthObject(6, TRUE, 1, 1, 4, TRUE, AllDiseases),
      FamilyHealthObject(4, FALSE, 3, 3, 6, TRUE, NoDiseases)>>

ThreadProfile(t) == ThreadProfiles[((t - 1) % Len(ThreadProfiles)) + 1]

\* A call that has not started: d is what its samplers' engines will draw
\* (in one run every engine draws its lowest, or every engine its highest,
\* value), from[k] the
\* owner of the sampler the output k was drawn from.
ThreadCall(f, d) ==
    [pc |-> "score", family |-> f, d |-> d, riskScore |-> 0, at |-> 1,
     out |-> NoReading, from |-> [k \in ReadingFields |-> 0], result |-> ""]

\* A plausible slip: the sampler is a function-local static, one object for
\* every call.
SamplerAddress_Static(t) == 0

\* Where the temporary RandomNumberGenerator of thread t's call lives: in
\* the frame of that call, on the stack of that thread.
SamplerAddress(t) == t

\* RandomNumberGenerator::RandomNumberGenerator (RandomNumberGenerator.cpp:21-23):
\* a freshly seeded engine and the distribution over (min, max).
RandomNumberGenerator_RandomNumberGenerator(t, min, max) ==
    [owner |-> t, min |-> min, max |-> max, draws |-> 0]

\* Lines 46-111: the score of the call's own profile, and the first of the
\* three insertions of line 111 into the shared standard output.  Each
\* insertion locks the stream on its own, so the insertions of other
\* threads may come between two of them.
ThreadScore(t) ==
    /\ thread[t].pc = "score"
    /\ thread' = [thread EXCEPT ![t].riskScore = RiskScore(thread[t].family),
                                ![t].pc = "print"]
    /\ cout' = Append(cout, RiskScoreLine(RiskScore(thread[t].family))[1])
    /\ UNCHANGED <<family, callVars, samplers, guiVars, acctVars>>

\* Line 111, the second and the third insertion: the number, then std::endl.
ThreadPrint(t) ==
    /\ thread[t].pc \in {"print", "endl"}
    /\ cout' = Append(cout, RiskScoreLine(thread[t].riskScore)[IF thread[t].pc = "print" THEN 2 ELSE 3])
    /\ thread' = [thread EXCEPT ![t].pc = IF @ = "print" THEN "endl" ELSE "construct"]
    /\ UNCHANGED <<family, callVars, samplers, guiVars, acctVars>>

\* The constructor call of the next RandomNumberGenerator(min, max) temporary.
ThreadConstruct(t) ==
    /\ thread[t].pc = "construct"
    /\ LET rg == SensorRanges(thread[t].riskScore)[FieldOrder[thread[t].at]]
           a == SamplerAddress(t)
       IN  samplers' = [x \in DOMAIN samplers \cup {a} |->
                           IF x = a
                           THEN RandomNumberGenerator_RandomNumberGenerator(t, rg[1], rg[2])
                           ELSE samplers[x]]
    /\ thread' = [thread EXCEPT ![t].pc = "generate"]
    /\ UNCHANGED <<family, callVars, cout, guiVars, acctVars>>

\* generate() on that temporary (RandomNumberGenerator.cpp:33-35) and the
\* assignment of what it returns to the output parameter.
ThreadGenerate(t) ==
    /\ thread[t].pc = "generate"
    /\ LET a == SamplerAddress(t)
           s == samplers[a]
           k == FieldOrder[thread[t].at]
       IN  /\ samplers' = [samplers EXCEPT ![a].draws = @ + 1]
           /\ thread' = [thread EXCEPT
                  ![t].out[k] = generate(s.min, s.max, thread[t].d),
                  ![t].from[k] = s.owner,
                  ![t].at = IF @ < Len(FieldOrder) THEN @ + 1 ELSE @,
                  ![t].pc = IF thread[t].at < Len(FieldOrder) THEN "construct" ELSE "return"]
    /\ UNCHANGED <<family, callVars, cout, guiVars, acctVars>>

\* Lines 137-143: the message of the call's own score.
ThreadReturn(t) ==
    /\ thread[t].pc = "return"
    /\ thread' = [thread EXCEPT ![t].result = RiskMessage(thread[t].riskScore),
                                ![t].pc = "done"]
    /\ UNCHANGED <<family, callVars, cout, samplers, guiVars, acctVars>>

InitThreads ==
    /\ family \in {FamilyHealthObject(1, FALSE, 3, 3, 6, FALSE, NoDiseases)}
    /\ riskScore = 0
    /\ reading = NoReading
    /\ result = ""
    /\ prev = <<>>
    /\ ret = <<>>
    /\ stored = NoDiseases
    /\ rng = <<>>
    /\ cout = <<>>
    /\ lastSet = <<>>
    /\ \E d \in {0, TopDraw} :
          thread = [t \in Threads |-> ThreadCall(ThreadProfile(t), d)]
    /\ samplers = <<>>
    /\ screen = <<>>
    /\ timers = <<>>
    /\ userdata = <<>>
    /\ window = <<>>
    /\ trace = <<>>
    /\ survey = <<>>
    /\ login = <<>>
    /\ notify = <<>>
    /\ mail = <<>>

NextThreads ==
    \E t \in Threads :
        \/ ThreadScore(t)
        \/ ThreadPrint(t)
        \/ ThreadConstruct(t)
        \/ ThreadGenerate(t)
        \/ ThreadReturn(t)

SpecThreads == InitThreads /\ [][NextThreads]_vars

(***************************************************************************)
(* The graphical application: HeartHealthScreen (GUI/HeartHealthScreen.cpp)*)
(* with the timers it owns and the file userdata.csv, and the handlers of  *)
(* MainWindow, SurveyScreen and SurveyFormScreen that drive it.            *)
(***************************************************************************)
MaxDisplays == 2
MaxTicks == 1

\* for (int i = 0; i < 20; i++), HeartHealthScreen.cpp:267
NumRows == 20

\* if (currentX > 50), HeartHealthScreen.cpp:339
ScrollThreshold == 50

\* A plausible slip: the message is compared with the pattern, not searched.
find_Equal(str, pattern) == str = pattern

\* str.find(pattern) != std::string::npos
find(str, pattern) ==
    \E i \in 1..(Len(str) - Len(pattern) + 1) :
        SubSeq(str, i, i + Len(pattern) - 1) = pattern

\* The if-chain of displayResults over the message (HeartHealthScreen.cpp:227-252).
CurrentRiskOf(assessment) ==
    IF find(assessment, "Low risk of heart disease.") THEN "low"
    ELSE IF find(assessment, "High risk of heart disease.") THEN "high"
    ELSE IF find(assessment, "Moderate risk of heart disease.") THEN "moderate"
    ELSE ""

\* new QTimer(this): an address no existing timer has.
NewTimer(ts) == CHOOSE i \in 1..(Cardinality(DOMAIN ts) + 1) : i \notin DOMAIN ts

\* HeartHealthScreen::HeartHealthScreen, setupUI and setupLiveChart
\* (HeartHealthScreen.cpp:47-63, 72-176); 0 is nullptr.
HeartHealthScreen_HeartHealthScreen(username) ==
    [resultLabel |-> "", heartRateLabel |-> "", m_currentRisk |-> "",
     heartRateSeries |-> <<>>, currentX |-> 0, liveDataIndex |-> 0,
     liveDataLines |-> <<>>, m_beepTimer |-> 0, user |-> username,
     liveTimer |-> 1, chartScroll |-> 0]

\* liveTimer = new QTimer(this); liveTimer->start(1000)
InitialTimers == [t \in {1} |-> [interval |-> 1000, active |-> TRUE]]

\* A QString is a string: Len, Head, Tail, SubSeq and \o act on it as on
\* any sequence of characters.
Chars(str) == [i \in 1..Len(str) |-> SubSeq(str, i, i)]

UpperCase == "ABCDEFGHIJKLMNOPQRSTUVWXYZ"
LowerCase == "abcdefghijklmnopqrstuvwxyz"
DecimalDigits == "0123456789"

\* Where the character first stands in the text, counted from 1; 0 if it
\* does not occur.
RECURSIVE IndexFrom(_, _, _)
IndexFrom(text, ch, i) ==
    IF i > Len(text) THEN 0
    ELSE IF SubSeq(text, i, i) = ch THEN i
    ELSE IndexFrom(text, ch, i + 1)

IndexIn(text, ch) == IndexFrom(text, ch, 1)

\* QChar::isLetter, QChar::isDigit and QChar::isSpace on the characters the
\* texts of the model are made of; [A-Za-z] and \d of the regular expression
\* agree with them there.
Letters == {SubSeq(UpperCase, i, i) : i \in 1..Len(UpperCase)}
               \cup {SubSeq(LowerCase, i, i) : i \in 1..Len(LowerCase)}
Digits == {SubSeq(DecimalDigits, i, i) : i \in 1..Len(DecimalDigits)}

isLetter(ch) == ch \in Letters
isDigit(ch) == ch \in Digits
isSpace(ch) == ch = " "

\* QChar::toLower on the letters A to Z.
LowerOf ==
    [ch \in {SubSeq(UpperCase, i, i) : i \in 1..Len(UpperCase)} |->
        SubSeq(LowerCase, IndexIn(UpperCase, ch), IndexIn(UpperCase, ch))]

\* QChar::digitValue on the digits.
DigitValue == [ch \in Digits |-> IndexIn(DecimalDigits, ch) - 1]

\* The lower-case form that QString::compare(..., Qt::CaseInsensitive)
\* compares.
RECURSIVE ToLower(_)
ToLower(str) ==
    IF str = "" THEN ""
    ELSE (IF Head(str) \in DOMAIN LowerOf THEN LowerOf[Head(str)] ELSE Head(str))
           \o ToLower(Tail(str))

RECURSIVE TrimmedLeft(_)
TrimmedLeft(str) ==
    IF str # "" /\ isSpace(Head(str)) THEN TrimmedLeft(Tail(str)) ELSE str

RECURSIVE TrimmedRight(_)
TrimmedRight(str) ==
    IF str # "" /\ isSpace(SubSeq(str, Len(str), Len(str)))
    THEN TrimmedRight(SubSeq(str, 1, Len(str) - 1))
    ELSE str

\* QString::trimmed: the string without the white space at its two ends.
trimmed(str) == TrimmedRight(TrimmedLeft(str))

\* QString::length.
length(str) == Len(str)

\* QString::split(","): the pieces between the commas; at least one.
RECURSIVE split(_)
split(str) ==
    IF IndexIn(str, ",") = 0
    THEN <<str>>
    ELSE <<SubSeq(str, 1, IndexIn(str, ",") - 1)>>
           \o split(SubSeq(str, IndexIn(str, ",") + 1, Len(str)))

\* The line "username,password" (mainwindow.h:219) as a reader sees it after
\* line.split(","): the list of its fields.
SplitLine(username, password) == split(username \o "," \o password)

\* A field as a reader sees it after line.split(","): the list of its pieces.
SplitField(str) == split(str)

\* QRegularExpression("^(?=.*[A-Za-z])(?=.*\\d).{5,}$").match(password).hasMatch()
\* (mainwindow.h:181-182).
PasswordRegexMatches(password) ==
    LET chars == Chars(password)
    IN  /\ \E i \in 1..Len(chars) : isLetter(chars[i])
        /\ \E i \in 1..Len(chars) : isDigit(chars[i])
        /\ Len(chars) >= 5

\* The number a run of decimal digits spells.
RECURSIVE DigitsValue(_)
DigitsValue(str) ==
    IF str = "" THEN 0
    ELSE 10 * DigitsValue(SubSeq(str, 1, Len(str) - 1))
           + DigitValue[SubSeq(str, Len(str), Len(str))]

AllDigits(str) == \A i \in 1..Len(str) : isDigit(SubSeq(str, i, i))

\* QString::toDouble(&ok) on a text in decimal notation: white space at the
\* ends, a sign, digits, a point, digits, one digit at least.  (The texts of
\* the model hold no exponent, "inf" or "nan".)  ok tells
\* whether the text is such a number; val is the number in hundredths (exact
\* up to two digits after the point), 0 when it is none.
toDouble(text) ==
    LET t == trimmed(text)
        signed == t # "" /\ Head(t) \in {"-", "+"}
        body == IF signed THEN Tail(t) ELSE t
        point == IndexIn(body, ".")
        whole == IF point = 0 THEN body ELSE SubSeq(body, 1, point - 1)
        frac == IF point = 0 THEN "" ELSE SubSeq(body, point + 1, Len(body))
        ok == AllDigits(whole) /\ AllDigits(frac) /\ Len(whole) + Len(frac) > 0
        magnitude == 100 * DigitsValue(whole) + DigitsValue(SubSeq(frac \o "00", 1, 2))
    IN  [ok |-> ok,
         val |-> IF ~ok THEN 0 ELSE IF Head(t) = "-" THEN -magnitude ELSE magnitude]

(***************************************************************************)
(* Arithmetic of IEEE doubles near decimal numbers.  The double            *)
(*     num / den + err / (den * 2^scale)                                   *)
(* is held as the decimal fraction num / den it stands for and the small   *)
(* integer err that tells by how much it misses it; it is a multiple of    *)
(* 2^-scale.  Every operation rounds to nearest, ties to even, as the      *)
(* hardware does.                                                          *)
(***************************************************************************)
RECURSIVE Pow2(_)
Pow2(k) == IF k = 0 THEN 1 ELSE 2 * Pow2(k - 1)

\* 2^e modulo m.
RECURSIVE PowMod2(_, _)
PowMod2(e, m) ==
    IF e = 0 THEN 1 % m
    ELSE LET h == PowMod2(e \div 2, m)
         IN  IF e % 2 = 1 THEN (2 * ((h * h) % m)) % m ELSE (h * h) % m

RECURSIVE ExponentUp(_, _, _)
ExponentUp(N, D, e) == IF 2 * D <= N THEN ExponentUp(N, 2 * D, e + 1) ELSE e

RECURSIVE ExponentDown(_, _, _)
ExponentDown(N, D, e) == IF N < D THEN ExponentDown(2 * N, D, e - 1) ELSE e

\* The e with 2^e <= N / D < 2^(e + 1), for N, D > 0.
Exponent(N, D) == IF N >= D THEN ExponentUp(N, D, 0) ELSE ExponentDown(N, D, 0)

\* The scale of the doubles around N / D + r / (D * 2^s), N > 0: a double
\* of exponent e has 52 bits after its leading one, the last worth 2^(e - 52).
ScaleOf(N, D, r) ==
    LET e == Exponent(N, D)
        isPowerOfTwo == IF e >= 0 THEN N = D * Pow2(e) ELSE N * Pow2(-e) = D
    IN  52 - (IF r < 0 /\ isPowerOfTwo THEN e - 1 ELSE e)

\* r * 2^k.
ShiftLeft(r, k) == IF r = 0 THEN 0 ELSE r * Pow2(k)

\* N / D + r / (D * 2^s), N > 0, rounded to the nearest multiple of 2^-s2:
\* the err of the result, at scale s2.
RoundTo(N, D, r, s, s2) ==
    IF s2 >= s
    THEN LET rk == ShiftLeft(r, s2 - s)
             num == ((((N % (2 * D)) * PowMod2(s2, 2 * D)) % (2 * D)) + (rk % (2 * D)))
                       % (2 * D)
             rem == num % D
             down == 2 * rem < D \/ (2 * rem = D /\ num < D)
         IN  IF down THEN rk - rem ELSE rk - rem + D
    ELSE LET k == s - s2
             Q == D * Pow2(k)
             hi == ((N % D) * PowMod2(s - k - 1, D)) % D
             num == (Pow2(k + 1) * hi + r) % (2 * Q)
             rem == num % Q
             down == 2 * rem < Q \/ (2 * rem = Q /\ num < Q)
         IN  (IF down THEN r - rem ELSE r - rem + Q) \div Pow2(k)

RoundAt(N, D, r, s, s2) ==
    [num |-> N, den |-> D, err |-> RoundTo(N, D, r, s, s2), scale |-> s2]

RoundPositive(N, D, r, s) == RoundAt(N, D, r, s, ScaleOf(N, D, r))

Negated(a) == [a EXCEPT !.num = -@, !.err = -@]

\* The double nearest to N / D + r / (D * 2^s).
DoubleRound(N, D, r, s) ==
    IF N = 0 THEN [num |-> 0, den |-> D, err |-> r, scale |-> s]
    ELSE IF N < 0 THEN Negated(RoundPositive(-N, D, -r, s))
    ELSE RoundPositive(N, D, r, s)

\* The double nearest to x hundredths: what the compiler makes of a literal,
\* and toDouble of a text.
DoubleOf(x) == DoubleRound(x, 100, 0, 0)

\* a + b.
DoubleAdd(a, b) ==
    LET s == IF a.scale > b.scale THEN a.scale ELSE b.scale
    IN  DoubleRound(a.num + b.num, a.den,
                    ShiftLeft(a.err, s - a.scale) + ShiftLeft(b.err, s - b.scale), s)

\* a / n for an int n > 0.  Of a sum whose terms cancel, only the sign is
\* kept.
DoubleDiv(a, n) ==
    IF a.num = 0
    THEN [num |-> 0, den |-> a.den * n,
          err |-> IF a.err > 0 THEN 1 ELSE IF a.err < 0 THEN -1 ELSE 0,
          scale |-> a.scale]
    ELSE DoubleRound(a.num, a.den * n, a.err, a.scale)

\* a < c for an int c.
DoubleLess(a, c) == a.num < c * a.den \/ (a.num = c * a.den /\ a.err < 0)

\* QString::number(a, 'f', 1): the decimal text with one digit after the
\* point that is nearest to the double itself; of two equally near ones the
\* one farther from zero (the fixed mode of Qt's double-conversion).
RECURSIVE NumberF1(_)
NumberF1(a) ==
    IF a.num < 0 \/ (a.num = 0 /\ a.err < 0)
    THEN "-" \o NumberF1(Negated(a))
    ELSE LET q == (10 * a.num) \div a.den
             m == (10 * a.num) % a.den
             tenths == IF 2 * m < a.den THEN q
                       ELSE IF 2 * m > a.den THEN q + 1
                       ELSE IF a.err < 0 THEN q ELSE q + 1
         IN  ToString(tenths \div 10) \o "." \o ToString(tenths % 10)

\* QString::number(x, 'f', 1) of the double nearest to x hundredths.
Format1(x) == NumberF1(DoubleOf(x))


\* No file userdata.csv; the directory lets the program create one.
NoFile == [exists |-> FALSE, lines |-> <<>>, readable |-> TRUE, writable |-> TRUE]

\* file.open(QIODevice::ReadOnly | QIODevice::Text) succeeds.
CanRead(file) == file.exists /\ file.readable

\* file.open(QIODevice::WriteOnly | ...) succeeds; it creates a missing file.
CanWrite(file) == ~file.exists \/ file.writable

\* in.readLine().trimmed().split(","), on the fields of the line: the white
\* space before the first field and after the last one is gone.
TrimmedLine(parts) ==
    [i \in 1..Len(parts) |->
        IF Len(parts) = 1 THEN trimmed(parts[i])
        ELSE IF i = 1 THEN TrimmedLeft(parts[i])
        ELSE IF i = Len(parts) THEN TrimmedRight(parts[i])
        ELSE parts[i]]

\* The third fields of the 3-column rows of the given user, in file order
\* (HeartHealthScreen.cpp:361-372).
HeartRatesOf(lines, user) ==
    LET Taken(parts) == Len(parts) = 3 /\ TrimmedLine(parts)[1] = user
        rows == SelectSeq(lines, Taken)
    IN  [i \in 1..Len(rows) |-> TrimmedLine(rows[i])[3]]

\* HeartHealthScreen::loadDataFromCSV (HeartHealthScreen.cpp:352-375).
loadDataFromCSV(scr, file) ==
    IF ~CanRead(file)
    THEN [scr EXCEPT !.liveDataLines = <<>>]
    ELSE [scr EXCEPT !.liveDataLines = HeartRatesOf(file.lines, scr.user),
                     !.liveDataIndex = 0]

\* The screen, its timers and the file, as one call leaves them for the next.
World == [screen |-> screen, timers |-> timers, userdata |-> userdata]

\* m_beepTimer->stop(); m_beepTimer->deleteLater(): the timer is gone when
\* control is back in the event loop, before any other handler runs.
StopAndDelete(ts, t) == [x \in DOMAIN ts \ {t} |-> ts[x]]

\* What the loop over the rows meets (HeartHealthScreen.cpp:267-272): for
\* each i what the sampler of the row draws and what the clock reads.  In
\* pattern 0 every row draws the lowest value within one second; in pattern
\* p the draws step by p from row to row and the clock moves on p times.
MaxRowPatterns == 2

\* QDateTime::currentSecsSinceEpoch() as the loop starts.
ClockStarts == {1700000000}

RowInput(p, start) ==
    [draw |-> [i \in 0..(NumRows - 1) |-> (p * i) % (TopDraw + 1)],
     now |-> [i \in 0..(NumRows - 1) |-> start + (p * i) \div 10]]

\* What one run of displayResults meets: the draws of the samplers of
\* assessHeartHealth, the lowest in pattern 0 and the highest otherwise, and
\* the rows of the pattern.
DisplayInputs ==
    {[d |-> IF p = 0 THEN 0 ELSE TopDraw, rows |-> RowInput(p, start)] :
        p \in 0..(MaxRowPatterns - 1), start \in ClockStarts}

\* HeartHealthScreen::displayResults (HeartHealthScreen.cpp:214-278); d is
\* what the samplers of assessHeartHealth draw, e what the loop over the 20
\* rows meets.
DisplayResults(w, familyData, d, e) ==
    LET score == RiskScore(familyData)
        assessment == RiskMessage(score)
        rg == SensorRanges(score).heartRate
        heartRate == generate(rg[1], rg[2], d)
        risk == CurrentRiskOf(assessment)
        old == w.screen.m_beepTimer
        fresh == NewTimer(w.timers)
        timers1 ==
            IF risk = "high"
            THEN [x \in (DOMAIN w.timers \ {old}) \cup {fresh} |->
                    IF x = fresh THEN [interval |-> 2000, active |-> TRUE]
                    ELSE w.timers[x]]
            ELSE w.timers
        read == IF CanRead(w.userdata) THEN w.userdata.lines ELSE <<>>
        simulatedHR == [u \in Draws |-> generate(heartRate - 500, heartRate + 500, u)]
        text == [u \in Draws |-> Format1(simulatedHR[u])]
        userFields == split(w.screen.user)
        rows == [i \in 1..NumRows |->
                    userFields \o <<ToString(e.now[i - 1] + (i - 1)), text[e.draw[i - 1]]>>]
        userdata1 ==
            IF w.screen.user # "" /\ CanWrite(w.userdata)
            THEN [w.userdata EXCEPT !.exists = TRUE, !.lines = read \o rows]
            ELSE w.userdata
        screen1 ==
            [w.screen EXCEPT
                !.resultLabel = assessment,
                !.heartRateLabel = "Heart Rate: " \o Format1(heartRate) \o " BPM",
                !.m_currentRisk = risk,
                !.m_beepTimer = IF risk = "high" THEN fresh ELSE old]
    IN  [screen |-> loadDataFromCSV(screen1, userdata1),
         timers |-> timers1,
         userdata |-> userdata1]

\* HeartHealthScreen::reset (HeartHealthScreen.cpp:287-304).
Reset(w) ==
    [w EXCEPT
        !.timers = IF w.screen.m_beepTimer # 0
                   THEN StopAndDelete(w.timers, w.screen.m_beepTimer)
                   ELSE w.timers,
        !.screen = [w.screen EXCEPT
                        !.m_beepTimer = 0,
                        !.resultLabel = "",
                        !.heartRateLabel = "",
                        !.m_currentRisk = "",
                        !.heartRateSeries = <<>>,
                        !.currentX = 0,
                        !.liveDataIndex = 0,
                        !.liveDataLines = <<>>]]

\* HeartHealthScreen::showResultsForUser (HeartHealthScreen.cpp:402-412):
\* m_currentRisk and the beep timer stay as they are.
ShowResultsForUser(w) ==
    [w EXCEPT
        !.screen = loadDataFromCSV(
                       [w.screen EXCEPT
                           !.resultLabel = "Previous Results for " \o w.screen.user,
                           !.heartRateLabel = "",
                           !.heartRateSeries = <<>>,
                           !.currentX = 0,
                           !.liveDataIndex = 0,
                           !.liveDataLines = <<>>],
                       w.userdata)]

\* MainWindow::returnToMain (mainwindow.cpp:219-233): the two survey
\* screens clear their input fields, the heart screen is reset.
ReturnToMain(w) == Reset(w)

\* The rows of the file that displayResults wrote for the given user.
UserRows(lines, user) == Len(HeartRatesOf(lines, user))

\* No message box is open.
NoBox == [title |-> "", then |-> ""]

\* MainWindow::MainWindow (mainwindow.cpp:45-86): the main menu is shown.
\* modal is the message box that is open, with what the handler that opened
\* it does once the box is closed.
MainWindow_MainWindow ==
    [currentUsername |-> "", surveyFormScreen |-> FALSE, current |-> "main",
     modal |-> NoBox]

\* The widget is shown and no message box lies over it: the user can act on
\* it.
Shown(name) == window.current = name /\ window.modal = NoBox

\* QMessageBox::warning(this, title, ...) and QMessageBox::information: the
\* box opens and the call runs an event loop of its own, in which the timers
\* go on firing, until the user closes the box.
MessageBox(title, then) == [window EXCEPT !.modal = [title |-> title, then |-> then]]

NoTrace == [op |-> "", displays |-> 0, rows |-> 0, total |-> 0, beepRisk |-> "none"]

\* SurveyScreen::SurveyScreen (mainwindow.h:100-168): two empty fields.  box
\* is the title of the message box the last saveUserData showed ("": none),
\* emitted the argument of the surveyLoginSuccessful it emitted, if any,
\* accepted the names and passwords of all registrations it has accepted.
SurveyScreen_SurveyScreen ==
    [usernameField |-> "", passwordField |-> "", box |-> "", emitted |-> <<>>,
     accepted |-> <<>>]

\* SurveyScreen::reset (mainwindow.h:228-236): both fields are cleared; the
\* history of the last saveUserData starts afresh.
SurveyScreen_reset(s) == [SurveyScreen_SurveyScreen EXCEPT !.accepted = s.accepted]

\* No attemptLogin has run yet.
NoAttempt ==
    [account |-> "", entered |-> "", emitted |-> <<>>, warned |-> FALSE, box |-> ""]

\* ResultsLoginScreen::ResultsLoginScreen (part_005:41-85): an empty combo
\* box, whose current index is -1, and an empty password field.  last is
\* history: what the last attemptLogin read, emitted and warned.
ResultsLoginScreen_ResultsLoginScreen ==
    [accounts |-> <<>>, currentIndex |-> -1, passwordField |-> "", last |-> NoAttempt]

\* No NotifyCaregiverScreen has been created yet (mainwindow.cpp:151-156).
NoNotify ==
    [accounts |-> <<>>, warned |-> FALSE,
     last |-> [account |-> "", entered |-> "", recipient |-> "",
               verified |-> FALSE, sendEmail |-> FALSE, box |-> ""]]

\* EmailSender::sendEmail has not been called.
NoMail == [called |-> FALSE]

InitAccounts ==
    /\ survey = SurveyScreen_SurveyScreen
    /\ login = ResultsLoginScreen_ResultsLoginScreen
    /\ notify = NoNotify
    /\ mail = NoMail

\* displayResults(familyData) called on the screen.
displayResults(familyData, d, e) ==
    LET w == DisplayResults(World, familyData, d, e)
    IN  /\ trace.total < MaxDisplays
        /\ screen' = w.screen
        /\ timers' = w.timers
        /\ userdata' = w.userdata
        /\ cout' = cout \o RiskScoreLine(RiskScore(familyData))
        /\ trace' = [trace EXCEPT !.op = "displayResults",
                        !.displays = (Len(cout') - Len(cout)) \div InsertionsPerCall,
                        !.rows = UserRows(w.userdata.lines, screen.user)
                                   - UserRows(userdata.lines, screen.user),
                        !.total = @ + 1]
        /\ UNCHANGED <<family, callVars, concVars, acctVars, window>>

\* reset() called on the screen.
reset ==
    LET w == Reset(World)
    IN  /\ screen' = w.screen
        /\ timers' = w.timers
        /\ trace' = [trace EXCEPT !.op = "reset", !.displays = 0, !.rows = 0]
        /\ UNCHANGED <<family, callVars, cout, concVars, acctVars, userdata, window>>

\* showResultsForUser() called on the screen.
showResultsForUser ==
    /\ screen' = ShowResultsForUser(World).screen
    /\ trace' = [trace EXCEPT !.op = "showResultsForUser", !.displays = 0, !.rows = 0]
    /\ UNCHANGED <<family, callVars, cout, concVars, acctVars, timers, userdata, window>>

\* HeartHealthScreen::goBackToMain (HeartHealthScreen.cpp:383-395), with
\* MainWindow::returnToMain, the slot of the signal it emits
\* (mainwindow.cpp:76-77, 219-233).
goBackToMain ==
    LET w0 == [World EXCEPT
                 !.timers = IF screen.m_beepTimer # 0
                            THEN StopAndDelete(timers, screen.m_beepTimer)
                            ELSE timers,
                 !.screen = [screen EXCEPT !.m_beepTimer = 0]]
        w == ReturnToMain(w0)
    IN  /\ screen' = w.screen
        /\ survey' = SurveyScreen_reset(survey)
        /\ timers' = w.timers
        /\ window' = [window EXCEPT !.currentUsername = "", !.current = "main"]
        /\ trace' = [trace EXCEPT !.op = "goBackToMain", !.displays = 0, !.rows = 0]
        /\ UNCHANGED <<family, callVars, cout, concVars, login, notify, mail, userdata>>

\* setUser(username) (HeartHealthScreen.h:81).
setUser(username) ==
    /\ screen' = [screen EXCEPT !.user = username]
    /\ trace' = [trace EXCEPT !.op = "setUser", !.displays = 0, !.rows = 0]
    /\ UNCHANGED <<family, callVars, cout, concVars, acctVars, timers, userdata, window>>

\* HeartHealthScreen::updateLiveChart, the slot of liveTimer
\* (HeartHealthScreen.cpp:325-341); d is what the sampler draws.
updateLiveChart(d) ==
    LET stored1 == screen.liveDataLines # <<>>
                     /\ screen.liveDataIndex < Len(screen.liveDataLines)
        val == toDouble(screen.liveDataLines[screen.liveDataIndex + 1])
        newHeartRate ==
            IF stored1 THEN (IF val.ok THEN val.val ELSE 7000)
            ELSE generate(6000, 10000, d)
    IN  /\ timers[screen.liveTimer].active
        /\ screen.currentX < MaxTicks
        /\ screen' = [screen EXCEPT
              !.liveDataIndex = IF stored1 THEN @ + 1 ELSE @,
              !.heartRateSeries = Append(@, <<screen.currentX, newHeartRate>>),
              !.currentX = @ + 1,
              !.chartScroll = IF screen.currentX + 1 > ScrollThreshold THEN @ + 1 ELSE @]
        /\ trace' = [trace EXCEPT !.op = "updateLiveChart", !.displays = 0, !.rows = 0]
        /\ UNCHANGED <<family, callVars, cout, concVars, acctVars, timers, userdata, window>>

\* The slot of a beep timer (HeartHealthScreen.cpp:238-246): the beep is
\* played; trace keeps the risk the screen showed while it sounded.
beepTimeout(t) ==
    /\ t \in DOMAIN timers
    /\ t # screen.liveTimer
    /\ timers[t].active
    /\ trace' = [trace EXCEPT !.op = "beep", !.displays = 0, !.rows = 0,
                              !.beepRisk = screen.m_currentRisk]
    /\ UNCHANGED <<family, callVars, cout, concVars, acctVars, screen, timers, userdata, window>>

Usernames == {"alice", "bob"}

\* A file in which alice is registered (mainwindow.h:213-220).
RegisteredFile ==
    [exists |-> TRUE, lines |-> <<<<"Username", "Password">>, <<"alice", "pass1">>>>,
     readable |-> TRUE, writable |-> TRUE]

\* The profiles the screen is shown: one of each tier.
ScreenProfiles == {ThreadProfiles[i] : i \in DOMAIN ThreadProfiles}

(***************************************************************************)
(* SpecScreen: the public operations of one HeartHealthScreen, created by  *)
(* MainWindow (mainwindow.cpp:54), called in any order.                    *)
(***************************************************************************)
InitScreen ==
    /\ family \in {FamilyHealthObject(1, FALSE, 3, 3, 6, FALSE, NoDiseases)}
    /\ riskScore = 0
    /\ reading = NoReading
    /\ result = ""
    /\ prev = <<>>
    /\ ret = <<>>
    /\ stored = NoDiseases
    /\ rng = <<>>
    /\ cout = <<>>
    /\ lastSet = <<>>
    /\ thread = <<>>
    /\ samplers = <<>>
    /\ screen = HeartHealthScreen_HeartHealthScreen("")
    /\ timers = InitialTimers
    /\ userdata = RegisteredFile
    /\ window = MainWindow_MainWindow
    /\ trace = NoTrace
    /\ InitAccounts

NextScreen ==
    \/ \E f \in ScreenProfiles, x \in DisplayInputs : displayResults(f, x.d, x.rows)
    \/ reset
    \/ showResultsForUser
    \/ goBackToMain
    \/ \E username \in {"alice", ""} : setUser(username)
    \/ \E d \in {0, TopDraw} : updateLiveChart(d)
    \/ \E t \in DOMAIN timers : beepTimeout(t)

SpecScreen == InitScreen /\ [][NextScreen]_vars

(***************************************************************************)
(* SpecFile: displayResults and setUser on a screen whose userdata.csv may *)
(* be missing, unreadable or read-only (the modes the file system gives    *)
(* QFile::open, HeartHealthScreen.cpp:257, 263).                           *)
(***************************************************************************)
\* The variables no operation of the screen touches, as the program starts.
InitIdle ==
    /\ family \in {FamilyHealthObject(1, FALSE, 3, 3, 6, FALSE, NoDiseases)}
    /\ riskScore = 0
    /\ reading = NoReading
    /\ result = ""
    /\ prev = <<>>
    /\ ret = <<>>
    /\ stored = NoDiseases
    /\ rng = <<>>
    /\ cout = <<>>
    /\ lastSet = <<>>
    /\ thread = <<>>
    /\ samplers = <<>>

\* userdata.csv with one registration, in each mode of access.
FilesOnDisk ==
    {NoFile} \cup
    {[RegisteredFile EXCEPT !.readable = r, !.writable = w] :
        r \in BOOLEAN, w \in BOOLEAN}

InitFile ==
    /\ InitIdle
    /\ screen = HeartHealthScreen_HeartHealthScreen("")
    /\ timers = InitialTimers
    /\ userdata \in FilesOnDisk
    /\ window = MainWindow_MainWindow
    /\ trace = NoTrace
    /\ InitAccounts

NextFile ==
    \/ \E f \in ScreenProfiles, x \in DisplayInputs : displayResults(f, x.d, x.rows)
    \/ \E username \in {"alice", ""} : setUser(username)

SpecFile == InitFile /\ [][NextFile]_vars

(***************************************************************************)
(* SpecApp: the application as its user drives it: Start Assessment,       *)
(* registration on the SurveyScreen, the survey form, the result screen    *)
(* and its Back button.  family is SurveyFormScreen::familyData.           *)
(***************************************************************************)
\* The registrations a run accepts.
MaxRegistrations == 2

\* The user names typed into the SurveyScreen.
TypedUsernames == Usernames \cup {"Alice"}

\* The selections of the seven combo boxes (ResultsLoginScreen.h:145-156),
\* as indices: age, gender, sleep, exercise, family history, diet, smoking.
\* The first is what reset() leaves selected (Moderate), then a Low and a
\* High selection.
SurveySelections ==
    {<<0, 0, 0, 0, 0, 0, 0>>, <<0, 0, 2, 2, 0, 0, 0>>, <<5, 1, 0, 0, 1, 3, 1>>}

\* MainWindow::showSurveyScreen, the slot of the Start Assessment button
\* (mainwindow.cpp:146, 203-206).
showSurveyScreen ==
    /\ Shown("main")
    /\ window' = [window EXCEPT !.current = "survey"]
    /\ trace' = [trace EXCEPT !.op = "showSurveyScreen", !.displays = 0, !.rows = 0]
    /\ UNCHANGED <<family, callVars, cout, concVars, acctVars, screen, timers, userdata>>

\* SurveyScreen::saveUserData (mainwindow.h:170-226) on what the user typed
\* into the two fields, and, when it emits surveyLoginSuccessful, the slot of
\* that signal (mainwindow.cpp:65-71) with MainWindow::showSurveyForm
\* (208-217).
saveUserData(usernameText, passwordText) ==
    LET username == trimmed(usernameText)
        password == trimmed(passwordText)
        lines == IF CanRead(userdata) THEN userdata.lines ELSE <<>>
        userAlreadyExists ==
            \E i \in 2..Len(lines) : ToLower(lines[i][1]) = ToLower(username)
        typed == [survey EXCEPT !.usernameField = usernameText,
                                !.passwordField = passwordText,
                                !.emitted = <<>>]
        Warning(title) ==
            /\ survey' = [typed EXCEPT !.box = title]
            /\ window' = MessageBox(title, "")
            /\ UNCHANGED <<userdata, screen, trace>>
    IN  /\ Shown("survey")
        /\ Len(survey.accepted) < MaxRegistrations
        /\ IF username = "" \/ password = ""
           THEN Warning("Input Error")
           ELSE IF ~PasswordRegexMatches(password)
           THEN Warning("Password Error")
           ELSE IF userAlreadyExists
           THEN Warning("Registration Error")
           ELSE IF ~CanWrite(userdata)
           THEN Warning("Error")
           ELSE /\ userdata' =
                     [userdata EXCEPT
                        !.exists = TRUE,
                        !.lines = (IF userdata.exists THEN userdata.lines
                                   ELSE <<<<"Username", "Password">>>>)
                                    \o <<SplitLine(username, password)>>]
                /\ survey' = [typed EXCEPT !.box = "", !.emitted = <<username>>,
                                           !.accepted = Append(@, <<username, password>>)]
                /\ window' = [currentUsername |-> username,
                              surveyFormScreen |-> TRUE,
                              current |-> "form",
                              modal |-> NoBox]
                /\ screen' = [screen EXCEPT !.user = username]
                /\ trace' = [trace EXCEPT !.op = "saveUserData", !.displays = 0, !.rows = 0]
        /\ UNCHANGED <<family, callVars, cout, concVars, login, notify, mail, timers>>

\* The Back button of the SurveyScreen: goBackToMain is connected to
\* MainWindow::returnToMain (mainwindow.cpp:73-74, 219-233).
SurveyScreen_goBackToMain ==
    LET w == ReturnToMain(World)
    IN  /\ Shown("survey")
        /\ screen' = w.screen
        /\ survey' = SurveyScreen_reset(survey)
        /\ timers' = w.timers
        /\ window' = [window EXCEPT !.currentUsername = "", !.current = "main"]
        /\ trace' = [trace EXCEPT !.op = "returnToMain", !.displays = 0, !.rows = 0]
        /\ UNCHANGED <<family, callVars, cout, concVars, login, notify, mail, userdata>>

\* SurveyFormScreen::submitSurvey (ResultsLoginScreen.h:194-215): the seven
\* setters, then emit surveyCompleted, whose slot is displayResults
\* (mainwindow.cpp:212-213), then displayResults called on the screen found
\* in the stacked widget.  d1, e1 and d2, e2 are what the two runs meet.
submitSurvey(q, d1, e1, d2, e2) ==
    LET familyData ==
            StoreFamilyDisease(
                [family EXCEPT !.ageGroup = q[1] + 1,
                               !.gender = (q[2] = 1),
                               !.sleepHours = q[3] + 1,
                               !.exerciseFrequency = q[4] + 1,
                               !.dietType = q[6] + 1,
                               !.isSmoker = (q[7] = 1)],
                0, q[5] = 1)
        emitted == DisplayResults(World, familyData, d1, e1)
        called == DisplayResults(emitted, familyData, d2, e2)
    IN  /\ Shown("form")
        /\ family' = familyData
        /\ screen' = called.screen
        /\ timers' = called.timers
        /\ userdata' = called.userdata
        /\ window' = [window EXCEPT !.current = "heart"]
        /\ cout' = cout \o RiskScoreLine(RiskScore(familyData))
                          \o RiskScoreLine(RiskScore(familyData))
        /\ trace' = [trace EXCEPT
                        !.op = "submitSurvey",
                        !.displays = (Len(cout') - Len(cout)) \div InsertionsPerCall,
                        !.rows = UserRows(called.userdata.lines, screen.user)
                                   - UserRows(userdata.lines, screen.user),
                        !.total = @ + 2]
        /\ UNCHANGED <<callVars, concVars, acctVars>>

\* The Back to Main Menu button of the result screen (HeartHealthScreen.cpp:108).
backButtonClicked ==
    /\ Shown("heart")
    /\ goBackToMain

\* The application as it starts.  The FamilyHealth member of the form is
\* one of the constructed objects; submitSurvey overwrites each of its
\* scalar members before any of them is read.
InitApp ==
    /\ family \in ConstructedObjects
    /\ family \in FamilyHealth_FamilyHealth
    /\ riskScore = 0
    /\ reading = NoReading
    /\ result = ""
    /\ prev = <<>>
    /\ ret = <<>>
    /\ stored = NoDiseases
    /\ rng = <<>>
    /\ cout = <<>>
    /\ lastSet = <<>>
    /\ thread = <<>>
    /\ samplers = <<>>
    /\ screen = HeartHealthScreen_HeartHealthScreen("")
    /\ timers = InitialTimers
    /\ userdata \in {NoFile, RegisteredFile}
    /\ window = MainWindow_MainWindow
    /\ trace = NoTrace
    /\ InitAccounts

(***************************************************************************)
(* EmailSender::sendEmail (part_007:35-99) and the SMTP server it talks    *)
(* to.  The environment and the behaviour of the network are inputs.       *)
(***************************************************************************)
\* The commands sendEmail hands to sendCmd, in order (part_007:72-95).
SmtpCommands ==
    <<"EHLO", "AUTH LOGIN", "base64Email", "base64Password", "MAIL FROM",
      "RCPT TO", "DATA", "message", "QUIT">>

\* What a command can meet: the server accepts it, the server rejects it,
\* no reply arrives within 5 s (part_007:62), the write fails (part_007:59).
SmtpFailures == {"rejected", "noReply", "writeFailed"}

\* qgetenv of the two variables (part_007:40-41): set, or empty.
Environments ==
    [HEARTPI_EMAIL : {"", "heartpi@gmail.com"},
     HEARTPI_APP_PASSWORD : {"", "app-password"}]

\* The network during one call: whether waitForConnected succeeds, and the
\* first command that fails and how (failsAt 0: every command is accepted).
\* Once a command has failed, those after it fail the same way.
Networks ==
    {[connects |-> c, failsAt |-> 0, how |-> "accepted"] : c \in BOOLEAN}
      \cup [connects : BOOLEAN, failsAt : 1..Len(SmtpCommands), how : SmtpFailures]

\* The lambda sendCmd (part_007:56-69) for the i-th command: it writes the
\* command, logs a failed write or a missing reply, and returns what it read.
sendCmd(net, i) ==
    IF net.failsAt = 0 \/ i < net.failsAt THEN "accepted" ELSE net.how

\* EmailSender::sendEmail (part_007:35-99): what it returns, and what each
\* command it sent met.  The value of sendCmd is discarded at every call.
SendEmail(to, subject, body, env, net) ==
    IF env.HEARTPI_EMAIL = "" \/ env.HEARTPI_APP_PASSWORD = ""
    THEN [called |-> TRUE, to |-> to, subject |-> subject, body |-> body,
          env |-> env, net |-> net, connected |-> FALSE, dialogue |-> <<>>,
          returned |-> FALSE]
    ELSE IF ~net.connects
    THEN [called |-> TRUE, to |-> to, subject |-> subject, body |-> body,
          env |-> env, net |-> net, connected |-> FALSE, dialogue |-> <<>>,
          returned |-> FALSE]
    ELSE [called |-> TRUE, to |-> to, subject |-> subject, body |-> body,
          env |-> env, net |-> net, connected |-> TRUE,
          dialogue |-> [i \in 1..Len(SmtpCommands) |-> sendCmd(net, i)],
          returned |-> TRUE]

\* A call of EmailSender::sendEmail from any caller.
sendEmail(to, subject, body, env, net) ==
    /\ mail' = SendEmail(to, subject, body, env, net)
    /\ UNCHANGED <<family, callVars, cout, concVars, guiVars, survey, login, notify>>

(***************************************************************************)
(* ResultsLoginScreen (part_005): the account list, the two inputs and the *)
(* Login button.                                                           *)
(***************************************************************************)
\* The sequences that hold each element of the set once: the orders in
\* which a range-based for loop can visit a QSet (part_005:118).
Orderings(S) ==
    {s \in [1..Cardinality(S) -> S] : \A i, j \in DOMAIN s : s[i] = s[j] => i = j}

\* The names updateAccounts collects (part_005:103-115): of the trimmed
\* lines that are not empty, the first field of each one after the first
\* that has exactly two fields.
RegistrationNames(lines) ==
    LET NotEmpty(parts) == TrimmedLine(parts) # <<"">>
        rows == SelectSeq(lines, NotEmpty)
    IN  {TrimmedLine(rows[i])[1] : i \in {j \in 2..Len(rows) : Len(rows[j]) = 2}}

\* QComboBox::currentText: the text of the current item, "" without one.
currentText(combo) ==
    IF combo.currentIndex \in 0..(Len(combo.accounts) - 1)
    THEN combo.accounts[combo.currentIndex + 1]
    ELSE ""

\* QComboBox::setCurrentIndex(index): an index without an item leaves the
\* box without a current item (index -1).
setCurrentIndex(combo, index) ==
    [combo EXCEPT !.currentIndex =
        IF index \in 0..(Len(combo.accounts) - 1) THEN index ELSE -1]

\* ResultsLoginScreen::updateAccounts (part_005:93-121) leaving the combo
\* box with the given items: clear(), then addItem for each name, the first
\* of which becomes the current item.
UpdateAccounts(l, items) ==
    [l EXCEPT !.accounts = items, !.currentIndex = IF items = <<>> THEN -1 ELSE 0]

\* The lists updateAccounts can leave in the combo box.
AccountLists(file) ==
    IF CanRead(file) THEN Orderings(RegistrationNames(file.lines)) ELSE {<<>>}

\* passwordField->clear(); accountComboBox->setCurrentIndex(0), the last two
\* statements of every path of attemptLogin (part_005:139-140, 202-203).
ClearLogin(l) == setCurrentIndex([l EXCEPT !.passwordField = ""], 0)

\* attemptLogin without the test parts.size() == 2 of part_005:183: a row
\* with more fields is taken for a registration.
AttemptLogin_AnyRow(l, file) ==
    LET selectedAccount == currentText(l)
        enteredPassword == trimmed(l.passwordField)
        chars == Chars(enteredPassword)
        hasLetter == \E i \in 1..Len(chars) : isLetter(chars[i])
        hasDigit == \E i \in 1..Len(chars) : isDigit(chars[i])
        valid ==
            \E i \in 2..Len(file.lines) :
                /\ Len(file.lines[i]) >= 2
                /\ ToLower(TrimmedLine(file.lines[i])[1]) = ToLower(selectedAccount)
                /\ TrimmedLine(file.lines[i])[2] = enteredPassword
        box ==
            IF selectedAccount = "" \/ enteredPassword = "" THEN "Input Error"
            ELSE IF length(enteredPassword) <= 4 THEN "Invalid Password"
            ELSE IF ~hasLetter \/ ~hasDigit THEN "Invalid Password"
            ELSE IF ~CanRead(file) THEN "File Error"
            ELSE IF valid THEN ""
            ELSE "Login Failed"
    IN  ClearLogin([l EXCEPT !.last = [account |-> selectedAccount,
                                       entered |-> enteredPassword,
                                       emitted |-> IF box = "" THEN <<selectedAccount>>
                                                   ELSE <<>>,
                                       warned |-> box # "",
                                       box |-> box]])

\* ResultsLoginScreen::attemptLogin (part_005:130-204): the screen when
\* the handler has returned, with what it emitted and the title of the
\* message box it showed ("": none).
AttemptLogin(l, file) ==
    LET selectedAccount == currentText(l)
        enteredPassword == trimmed(l.passwordField)
        chars == Chars(enteredPassword)
        hasLetter == \E i \in 1..Len(chars) : isLetter(chars[i])
        hasDigit == \E i \in 1..Len(chars) : isDigit(chars[i])
        valid ==
            \E i \in 2..Len(file.lines) :
                /\ Len(file.lines[i]) = 2
                /\ ToLower(TrimmedLine(file.lines[i])[1]) = ToLower(selectedAccount)
                /\ TrimmedLine(file.lines[i])[2] = enteredPassword
        box ==
            IF selectedAccount = "" \/ enteredPassword = "" THEN "Input Error"
            ELSE IF length(enteredPassword) <= 4 THEN "Invalid Password"
            ELSE IF ~hasLetter \/ ~hasDigit THEN "Invalid Password"
            ELSE IF ~CanRead(file) THEN "File Error"
            ELSE IF valid THEN ""
            ELSE "Login Failed"
    IN  ClearLogin([l EXCEPT !.last = [account |-> selectedAccount,
                                       entered |-> enteredPassword,
                                       emitted |-> IF box = "" THEN <<selectedAccount>>
                                                   ELSE <<>>,
                                       warned |-> box # "",
                                       box |-> box]])

\* The user closes the open message box and the handler that stands in it
\* goes on: attemptLogin clears the password field and resets the combo box
\* (part_005:139-140 and after each other warning), the notify button
\* handler shows the new screen (mainwindow.cpp:153-154), attemptSendAlert,
\* back from verifyCredentials, opens its "Authentication Failed" box
\* (SurveyScreen.h:250-253); the other handlers return.
closeMessageBox ==
    LET then == window.modal.then
    IN  /\ window.modal # NoBox
        /\ window' =
              IF then = "setCurrentWidget"
              THEN [window EXCEPT !.modal = NoBox, !.current = "notify"]
              ELSE IF then = "Authentication Failed"
              THEN MessageBox("Authentication Failed", "")
              ELSE [window EXCEPT !.modal = NoBox]
        /\ login' = IF then = "clear" THEN ClearLogin(login) ELSE login
        /\ notify' = IF then = "Authentication Failed"
                     THEN [notify EXCEPT !.last.box = "Authentication Failed"]
                     ELSE notify
        /\ trace' = [trace EXCEPT
                       !.op = IF then = "clear" THEN "attemptLogin" ELSE "closeMessageBox",
                       !.displays = 0, !.rows = 0]
        /\ UNCHANGED <<family, callVars, cout, concVars, screen, timers, userdata,
                       survey, mail>>

\* MainWindow::showResultsLoginScreen, the slot of the Login button of the
\* main menu (mainwindow.cpp:147, 235-239).
showResultsLoginScreen ==
    /\ Shown("main")
    /\ \E items \in AccountLists(userdata) : login' = UpdateAccounts(login, items)
    /\ window' = [window EXCEPT !.current = "login"]
    /\ trace' = [trace EXCEPT !.op = "showResultsLoginScreen", !.displays = 0, !.rows = 0]
    /\ UNCHANGED <<family, callVars, cout, concVars, screen, timers, userdata,
                   survey, notify, mail>>

\* The user picks an item of the account combo box.
selectAccount(index) ==
    /\ Shown("login")
    /\ index \in 0..(Len(login.accounts) - 1)
    /\ login' = setCurrentIndex(login, index)
    /\ trace' = [trace EXCEPT !.op = "selectAccount", !.displays = 0, !.rows = 0]
    /\ UNCHANGED <<family, callVars, cout, concVars, screen, timers, userdata, window,
                   survey, notify, mail>>

\* The user types into the password field.
typePassword(text) ==
    /\ Shown("login")
    /\ login' = [login EXCEPT !.passwordField = text]
    /\ trace' = [trace EXCEPT !.op = "typePassword", !.displays = 0, !.rows = 0]
    /\ UNCHANGED <<family, callVars, cout, concVars, screen, timers, userdata, window,
                   survey, notify, mail>>

\* The Login button: attemptLogin up to its return or to the message box
\* it opens, and the slot of loginSuccessful, which shows a new
\* WelcomeScreen (mainwindow.cpp:80-85).  With a box open the handler
\* stands in QMessageBox::warning; closeMessageBox runs its last two
\* statements.
attemptLogin ==
    LET done == AttemptLogin(login, userdata)
    IN  /\ Shown("login")
        /\ IF done.last.warned
           THEN /\ login' = [login EXCEPT !.last = done.last]
                /\ window' = MessageBox(done.last.box, "clear")
                /\ trace' = [trace EXCEPT !.op = "attemptLogin: warning",
                                          !.displays = 0, !.rows = 0]
           ELSE /\ login' = done
                /\ window' = [window EXCEPT !.current = "welcome"]
                /\ trace' = [trace EXCEPT !.op = "attemptLogin",
                                          !.displays = 0, !.rows = 0]
        /\ UNCHANGED <<family, callVars, cout, concVars, screen, timers, userdata,
                       survey, notify, mail>>

\* ResultsLoginScreen::goBack (part_005:211-216) and the Back button of the
\* WelcomeScreen (part_004:144-146): stackedWidget->setCurrentIndex(0).
ResultsLoginScreen_goBack ==
    /\ window.current \in {"login", "welcome"}
    /\ window.modal = NoBox
    /\ window' = [window EXCEPT !.current = "main"]
    /\ trace' = [trace EXCEPT !.op = "goBack", !.displays = 0, !.rows = 0]
    /\ UNCHANGED <<family, callVars, cout, concVars, screen, timers, userdata, acctVars>>

\* A file edited by hand, with the given rows after the header.
EditedFile(rows) == [RegisteredFile EXCEPT !.lines = <<<<"Username", "Password">>>> \o rows]

\* Files for the login screen: none, one written by the program, the same
\* without read permission, and three edited by hand: one whose passwords
\* the registration would not have taken, one where the only row with
\* Alice's name and "pass2" has a third field, and one with two rows whose
\* names differ in case only.
LoginFiles ==
    {NoFile, RegisteredFile, [RegisteredFile EXCEPT !.readable = FALSE],
     EditedFile(<<<<"bob", "pas1">>, <<"a", "12345">>, <<"b", "passw">>>>),
     EditedFile(<<<<"Alice", "pass1">>, <<"alice", "pass2", "1">>>>),
     EditedFile(<<<<"Alice", "pass1">>, <<"alice", "pass2">>>>)}

\* What is typed into the password field of the login screen.
LoginTexts == {"", "pass1", "pass1 ", "pass2", "pas1", "12345", "passw"}

(***************************************************************************)
(* SpecLogin: the login screen on each of the files, the live timer of the *)
(* heart screen ticking meanwhile, also while a message box is open.       *)
(***************************************************************************)
InitLogin ==
    /\ InitIdle
    /\ screen = HeartHealthScreen_HeartHealthScreen("")
    /\ timers = InitialTimers
    /\ userdata \in LoginFiles
    /\ window = MainWindow_MainWindow
    /\ trace = NoTrace
    /\ InitAccounts

NextLogin ==
    \/ showResultsLoginScreen
    \/ \E index \in 0..(Len(login.accounts) - 1) : selectAccount(index)
    \/ \E text \in LoginTexts : typePassword(text)
    \/ attemptLogin
    \/ ResultsLoginScreen_goBack
    \/ closeMessageBox
    \/ \E d \in {0, TopDraw} : updateLiveChart(d)

SpecLogin == InitLogin /\ [][NextLogin]_vars

(***************************************************************************)
(* NotifyCaregiverScreen (SurveyScreen.h:100-341).                         *)
(***************************************************************************)
\* The lists NotifyCaregiverScreen::loadAccounts (SurveyScreen.h:171-195)
\* can leave in the combo box.
LoadedAccounts(file) ==
    IF CanRead(file)
    THEN Orderings({trimmed(name) : name \in RegistrationNames(file.lines)})
    ELSE {<<>>}

\* verifyCredentials that looks at the name only.
verifyCredentials_NameOnly(username, password, file) ==
    /\ CanRead(file)
    /\ \E i \in 2..Len(file.lines) :
          /\ Len(file.lines[i]) = 2
          /\ ToLower(trimmed(file.lines[i][1])) = ToLower(username)

\* NotifyCaregiverScreen::verifyCredentials (SurveyScreen.h:206-232).
verifyCredentials(username, password, file) ==
    /\ CanRead(file)
    /\ \E i \in 2..Len(file.lines) :
          /\ Len(file.lines[i]) = 2
          /\ ToLower(trimmed(file.lines[i][1])) = ToLower(username)
          /\ trimmed(file.lines[i][2]) = password

\* The heart rates attemptSendAlert gathers (SurveyScreen.h:259-279), in
\* hundredths: of each line after the first that has three fields and whose
\* first field, trimmed, is the user's name, ignoring case, the third field
\* when toDouble takes it for a number.  The line is trimmed before it is
\* split; parts[0].trimmed() and toDouble, which skips the white space at
\* the ends of its text, make that invisible here.
AlertHeartRates(lines, user) ==
    LET name == ToLower(user)
        Taken(parts) ==
            /\ Len(parts) = 3
            /\ ToLower(trimmed(parts[1])) = name
            /\ toDouble(parts[3]).ok
        rows == SelectSeq(Tail(lines), Taken)
    IN  [i \in 1..Len(rows) |-> toDouble(rows[i][3]).val]

\* double sum = 0; for (double bpm : heartRates) sum += bpm
\* (SurveyScreen.h:284-286): each addition rounds to a double.
RECURSIVE AlertSum(_, _)
AlertSum(heartRates, n) ==
    IF n = 0 THEN DoubleOf(0)
    ELSE DoubleAdd(AlertSum(heartRates, n - 1), DoubleOf(heartRates[n]))

\* avg = sum / heartRates.size() (SurveyScreen.h:287).
AlertAverage(heartRates) ==
    DoubleDiv(AlertSum(heartRates, Len(heartRates)), Len(heartRates))

\* The risk level of an average (SurveyScreen.h:290-295).
RiskOfAverage(avg) ==
    IF DoubleLess(avg, 80) THEN "Low"
    ELSE IF DoubleLess(avg, 100) THEN "Moderate"
    ELSE "High"

\* The risk level of the mail (SurveyScreen.h:281-296).
AlertRisk(heartRates) ==
    IF heartRates = <<>> THEN "Unknown"
    ELSE RiskOfAverage(AlertAverage(heartRates))

\* The subject of the mail (SurveyScreen.h:299-303).
AlertSubject(selectedUser, risk) ==
    IF risk = "High"
    THEN <<"HIGH RISK DETECTED, PLEASE CHECK UP ON ", selectedUser,
           "'s HEART HEALTH IMMEDIATELY!">>
    ELSE <<"HeartPi Alert">>

\* The body of the mail (SurveyScreen.h:305-319), without its fixed phrases
\* and the date of the last reading.
AlertBody(selectedUser, heartRates) ==
    IF heartRates = <<>>
    THEN <<selectedUser, "No heart rate data available.">>
    ELSE LET avg == AlertAverage(heartRates)
         IN  <<selectedUser,
               "Average Heart Rate: ", NumberF1(avg),
               "Latest Heart Rate: ", Format1(heartRates[Len(heartRates)]),
               "Risk Level: ", RiskOfAverage(avg)>>

\* The Notify a Caregiver button of the main menu (mainwindow.cpp:151-156):
\* a new NotifyCaregiverScreen, whose constructor runs loadAccounts, then
\* addWidget and setCurrentWidget.  When loadAccounts cannot open the file
\* the handler stands in its "File Error" box (SurveyScreen.h:176-179) and
\* the main menu stays shown until closeMessageBox.
notifyButtonClicked ==
    /\ Shown("main")
    /\ \E items \in LoadedAccounts(userdata) :
          notify' = [NoNotify EXCEPT !.accounts = items, !.warned = ~CanRead(userdata)]
    /\ window' = IF CanRead(userdata)
                 THEN [window EXCEPT !.current = "notify"]
                 ELSE MessageBox("File Error", "setCurrentWidget")
    /\ trace' = [trace EXCEPT !.op = "notifyButtonClicked", !.displays = 0, !.rows = 0]
    /\ UNCHANGED <<family, callVars, cout, concVars, screen, timers, userdata,
                   survey, login, mail>>

\* The Send Alert button: NotifyCaregiverScreen::attemptSendAlert
\* (SurveyScreen.h:242-327) with the item picked in the combo box (-1: none)
\* and the texts typed into the two fields; env and net are the environment
\* and the network EmailSender::sendEmail meets.
attemptSendAlert(index, passwordText, recipientText, env, net) ==
    LET selectedUser ==
            currentText([accounts |-> notify.accounts, currentIndex |-> index])
        enteredPassword == trimmed(passwordText)
        recipientEmail == trimmed(recipientText)
        read == IF CanRead(userdata) THEN userdata.lines ELSE <<>>
        heartRates == IF read = <<>> THEN <<>> ELSE AlertHeartRates(read, selectedUser)
        sent == SendEmail(recipientEmail,
                          AlertSubject(selectedUser, AlertRisk(heartRates)),
                          AlertBody(selectedUser, heartRates), env, net)
        attempt == [account |-> selectedUser, entered |-> enteredPassword,
                    recipient |-> recipientEmail, verified |-> FALSE,
                    sendEmail |-> FALSE, box |-> ""]
    IN  /\ Shown("notify")
        /\ IF selectedUser = "" \/ enteredPassword = "" \/ recipientEmail = ""
           THEN /\ notify' = [notify EXCEPT !.last = [attempt EXCEPT !.box = "Input Error"]]
                /\ window' = MessageBox("Input Error", "")
                /\ mail' = mail
           ELSE IF ~verifyCredentials(selectedUser, enteredPassword, userdata)
           THEN /\ notify' = [notify EXCEPT
                                !.last = [attempt EXCEPT
                                            !.box = IF CanRead(userdata)
                                                    THEN "Authentication Failed"
                                                    ELSE "File Error"]]
                /\ window' = IF CanRead(userdata)
                             THEN MessageBox("Authentication Failed", "")
                             ELSE MessageBox("File Error", "Authentication Failed")
                /\ mail' = mail
           ELSE /\ notify' = [notify EXCEPT
                                !.last = [attempt EXCEPT
                                            !.verified = TRUE,
                                            !.sendEmail = TRUE,
                                            !.box = IF sent.returned THEN "Alert Sent"
                                                    ELSE "Failed"]]
                /\ window' = MessageBox(IF sent.returned THEN "Alert Sent" ELSE "Failed", "")
                /\ mail' = sent
        /\ trace' = [trace EXCEPT !.op = "attemptSendAlert", !.displays = 0, !.rows = 0]
        /\ UNCHANGED <<family, callVars, cout, concVars, screen, timers, userdata,
                       survey, login>>

\* NotifyCaregiverScreen::goBack (SurveyScreen.h:335-340).
NotifyCaregiverScreen_goBack ==
    /\ Shown("notify")
    /\ window' = [window EXCEPT !.current = "main"]
    /\ trace' = [trace EXCEPT !.op = "goBack", !.displays = 0, !.rows = 0]
    /\ UNCHANGED <<family, callVars, cout, concVars, screen, timers, userdata, acctVars>>

\* Outside the program, userdata.csv loses its read permission while the
\* screen is shown: the next open(ReadOnly) fails (SurveyScreen.h:209).
readPermissionLost ==
    /\ window.current = "notify"
    /\ CanRead(userdata)
    /\ userdata' = [userdata EXCEPT !.readable = FALSE]
    /\ trace' = [trace EXCEPT !.op = "readPermissionLost", !.displays = 0, !.rows = 0]
    /\ UNCHANGED <<family, callVars, cout, concVars, screen, timers, window, acctVars>>

\* Files for the notify screen: none, alice registered without readings,
\* the same unreadable, alice with two Low readings, alice and Alice's
\* readings High on average.
NotifyFiles ==
    {NoFile, RegisteredFile, [RegisteredFile EXCEPT !.readable = FALSE],
     EditedFile(<<<<"alice", "pass1">>, <<"alice", "1700000000", "70.0">>,
                  <<"alice", "1700000001", "72.4">>>>),
     EditedFile(<<<<"alice", "pass1">>, <<"bob", "pass2">>,
                  <<"Alice", "1700000000", "110.0">>, <<"bob", "1700000000", "70.0">>,
                  <<"alice", "1700000001", "bpm">>, <<"alice ", "1700000002", "95.1">>>>)}

\* The environments the alerts meet: the sender's address set or not, the
\* application password set (SpecEmail has the other two).
AlertEnvironments == {env \in Environments : env.HEARTPI_APP_PASSWORD # ""}

\* The networks the alerts meet: a server that accepts everything, no
\* connection, and a server that rejects the recipient.
AlertNetworks ==
    {[connects |-> TRUE, failsAt |-> 0, how |-> "accepted"],
     [connects |-> FALSE, failsAt |-> 0, how |-> "accepted"],
     [connects |-> TRUE, failsAt |-> 6, how |-> "rejected"]}

(***************************************************************************)
(* SpecApp: registration, survey and heart screen, from InitApp.  The      *)
(* message boxes of saveUserData close while the timers run.                *)
(***************************************************************************)
NextApp ==
    \/ showSurveyScreen
    \/ \E username \in TypedUsernames : saveUserData(username, "pass1")
    \/ SurveyScreen_goBackToMain
    \/ \E q \in SurveySelections, x1 \in DisplayInputs, x2 \in DisplayInputs :
          submitSurvey(q, x1.d, x1.rows, x2.d, x2.rows)
    \/ backButtonClicked
    \/ \E d \in {0, TopDraw} : updateLiveChart(d)
    \/ \E t \in DOMAIN timers : beepTimeout(t)
    \/ closeMessageBox

SpecApp == InitApp /\ [][NextApp]_vars

(***************************************************************************)
(* SpecNotify: the notify screen on each of the files, the live timer of   *)
(* the heart screen ticking meanwhile, also while a message box is open.   *)
(***************************************************************************)
InitNotify ==
    /\ InitIdle
    /\ screen = HeartHealthScreen_HeartHealthScreen("")
    /\ timers = InitialTimers
    /\ userdata \in NotifyFiles
    /\ window = MainWindow_MainWindow
    /\ trace = NoTrace
    /\ InitAccounts

NextNotify ==
    \/ notifyButtonClicked
    \/ \E index \in -1..(Len(notify.accounts) - 1),
          passwordText \in {"", "pass1 ", "pass2"},
          recipientText \in {"", " c@d.e "},
          env \in AlertEnvironments, net \in AlertNetworks :
            attemptSendAlert(index, passwordText, recipientText, env, net)
    \/ NotifyCaregiverScreen_goBack
    \/ readPermissionLost
    \/ closeMessageBox
    \/ updateLiveChart(0)

SpecNotify == InitNotify /\ [][NextNotify]_vars

(***************************************************************************)
(* SpecAccounts: the application from no userdata.csv: registrations, each *)
(* followed by the survey and its results, and logins.                     *)
(***************************************************************************)
\* What is typed into the two fields of the SurveyScreen.
RegistrationNames_Typed == {"", "alice", "Alice", " alice", "a,b"}
RegistrationPasswords_Typed == {"pass1", "pas,1", "passw"}

InitAccountsApp ==
    /\ InitIdle
    /\ screen = HeartHealthScreen_HeartHealthScreen("")
    /\ timers = InitialTimers
    /\ userdata = NoFile
    /\ window = MainWindow_MainWindow
    /\ trace = NoTrace
    /\ InitAccounts

NextAccounts ==
    \/ showSurveyScreen
    \/ \E usernameText \in RegistrationNames_Typed,
          passwordText \in RegistrationPasswords_Typed :
            saveUserData(usernameText, passwordText)
    \/ SurveyScreen_goBackToMain
    \/ \E x \in DisplayInputs :
          submitSurvey(<<0, 0, 0, 0, 0, 0, 0>>, x.d, x.rows, x.d, x.rows)
    \/ backButtonClicked
    \/ showResultsLoginScreen
    \/ \E index \in 0..(Len(login.accounts) - 1) : selectAccount(index)
    \/ \E text \in {"pass1", "pas,1"} : typePassword(text)
    \/ attemptLogin
    \/ ResultsLoginScreen_goBack
    \/ closeMessageBox

SpecAccounts == InitAccountsApp /\ [][NextAccounts]_vars

(***************************************************************************)
(* SpecEmail: sendEmail called in every environment, on every network.     *)
(***************************************************************************)
InitEmail ==
    /\ InitIdle
    /\ screen = HeartHealthScreen_HeartHealthScreen("")
    /\ timers = InitialTimers
    /\ userdata = NoFile
    /\ window = MainWindow_MainWindow
    /\ trace = NoTrace
    /\ InitAccounts

NextEmail ==
    \E env \in Environments, net \in Networks :
        sendEmail("caregiver@gmail.com", "HeartPi Alert", <<"No heart rate data available.">>, env, net)

SpecEmail == InitEmail /\ [][NextEmail]_vars

(***************************************************************************)
(* The specification's tables, written from its text (sections 4.2, 4.3),  *)
(* against which the code above is checked.                                *)
(***************************************************************************)
\* Section 4.2, the scoring table; a value no rule names contributes 0.
TableAge(f) ==
    IF f.ageGroup \in {1, 2} THEN 1
    ELSE IF f.ageGroup \in {3, 4} THEN 2
    ELSE IF f.ageGroup \in {5, 6} THEN 3
    ELSE 0

TableSexAge(f) ==
    IF ~f.gender /\ f.ageGroup <= 3 THEN 1
    ELSE IF ~f.gender /\ f.ageGroup > 3 THEN 3
    ELSE IF f.gender /\ f.ageGroup <= 3 THEN 2
    ELSE 3

TableSleep(f) ==
    IF f.sleepHours \in {1, 5} THEN 3
    ELSE IF f.sleepHours = 2 THEN 2
    ELSE IF f.sleepHours \in {3, 4} THEN 1
    ELSE 0

TableExercise(f) ==
    IF f.exerciseFrequency = 1 THEN 3
    ELSE IF f.exerciseFrequency = 2 THEN 2
    ELSE IF f.exerciseFrequency \in {3, 4} THEN 1
    ELSE 0

\* +2, +1, +2, +2 for disease 0, 1, 2, 3
TableDiseaseWeight(i) == IF i = 1 THEN 1 ELSE 2

TableFamilyHistory(f) ==
      (IF f.familyDiseasesHistory[0] THEN TableDiseaseWeight(0) ELSE 0)
    + (IF f.familyDiseasesHistory[1] THEN TableDiseaseWeight(1) ELSE 0)
    + (IF f.familyDiseasesHistory[2] THEN TableDiseaseWeight(2) ELSE 0)
    + (IF f.familyDiseasesHistory[3] THEN TableDiseaseWeight(3) ELSE 0)

TableDiet(f) ==
    IF f.dietType = 4 THEN 3
    ELSE IF f.dietType \in {1, 2, 3, 6} THEN 1
    ELSE IF f.dietType = 5 THEN 2
    ELSE 0

TableSmoking(f) == IF f.isSmoker THEN 3 ELSE 1

TableScore(f) ==
    TableAge(f) + TableSexAge(f) + TableSleep(f) + TableExercise(f)
      + TableFamilyHistory(f) + TableDiet(f) + TableSmoking(f)

\* Section 4.3, the three literal messages.
LowMessage == "Low risk of heart disease. You are healthy!"
ModerateMessage == "Moderate risk of heart disease."
HighMessage == "High risk of heart disease."

Messages == {LowMessage, ModerateMessage, HighMessage}

\* Section 4.3, the per-tier closed intervals, in hundredths, by message.
TierIntervals(message) ==
    IF message = LowMessage THEN
        [heartRate   |-> <<6000, 8000>>,
         sysBP       |-> <<11000, 12000>>,
         diasBP      |-> <<7000, 8000>>,
         cholesterol |-> <<15000, 20000>>,
         ecg         |-> <<5, 15>>]
    ELSE IF message = ModerateMessage THEN
        [heartRate   |-> <<8000, 9500>>,
         sysBP       |-> <<12000, 13500>>,
         diasBP      |-> <<8000, 9000>>,
         cholesterol |-> <<20000, 24000>>,
         ecg         |-> <<2, 18>>]
    ELSE
        [heartRate   |-> <<9500, 12000>>,
         sysBP       |-> <<13500, 16000>>,
         diasBP      |-> <<9000, 11000>>,
         cholesterol |-> <<24000, 30000>>,
         ecg         |-> <<-10, 30>>]

(***************************************************************************)
(* The claims.                                                             *)
(***************************************************************************)

\* C1: after assessHeartHealth on a profile whose fields are all inside
\* their documented domains, the risk score is the sum of the seven
\* per-factor contributions of the specification's scoring table.
C1_ScoreIsTableSum ==
    (Called /\ InDomain(family)) => riskScore = TableScore(family)

\* C1 witness: the call has run on an in-domain profile of age band 4 with
\* one family disease, and scored the table's sum.
C1_Witness ==
    /\ Called
    /\ InDomain(family)
    /\ family.ageGroup = 4
    /\ family.familyDiseasesHistory = [NoDiseases EXCEPT ![1] = TRUE]
    /\ riskScore = TableScore(family)

\* C2: the returned message is one of the three literals and is fixed by
\* the risk score alone: below 10 Low, 10 to 17 Moderate, 18 and above High.
C2_MessageByScore ==
    Called =>
        /\ result \in Messages
        /\ riskScore < 10 => result = LowMessage
        /\ (riskScore >= 10 /\ riskScore < 18) => result = ModerateMessage
        /\ riskScore >= 18 => result = HighMessage

\* C2 witness: a call that scored exactly 18 returned the High message.
C2_Witness == Called /\ riskScore = 18 /\ result = HighMessage

\* C3: each of the five outputs lies inside the closed interval the
\* specification gives for the tier of the returned message, and the
\* bounds handed to the samplers are those of that same tier.
C3_RangeContainment ==
    Called =>
        /\ \A k \in ReadingFields :
              /\ TierIntervals(result)[k][1] <= reading[k]
              /\ reading[k] <= TierIntervals(result)[k][2]
        /\ SensorRanges(riskScore) = TierIntervals(result)

\* C3 witness: a call at the threshold score 10 returned Moderate with the
\* diastolic pressure at the lower end of the Moderate interval and the
\* heart rate and the ECG value at the last value before the upper end of
\* theirs.
C3_Witness ==
    /\ Called
    /\ riskScore = 10
    /\ result = ModerateMessage
    /\ reading.diasBP = 8000
    /\ reading.heartRate = 9499
    /\ reading.ecg = 17

\* C4: two calls on profiles with identical field values compute the same
\* risk score and return the same message, whatever the samplers drew.
C4_ScoringDeterministic ==
    \A i \in 1..Len(prev) :
        prev[i].family = family =>
            /\ prev[i].riskScore = riskScore
            /\ prev[i].result = result

\* C4 witness: a second call has been made on the profile of the first.
C4_Witness ==
    /\ Len(prev) = 1
    /\ prev[1].family = family
    /\ prev[1].riskScore = riskScore
    /\ Called

OutOfDomainFactor(f) ==
    \/ f.ageGroup \notin 1..NumAgeGroups
    \/ f.sleepHours \notin 1..NumSleepCategories
    \/ f.exerciseFrequency \notin 1..NumExerciseCategories

\* C5: when ageGroup, sleepHoursCategory or exerciseFrequency is outside
\* its domain, no rule of that factor matches and the factor contributes 0,
\* so the score is the table's sum with 0 for that factor; the call returns
\* a message.  The final else of each chain (Calculations.cpp:53-54, 77-78,
\* 85-86) adds 3, 1 and 1 instead.
C5_UnmatchedFactorContributesZero ==
    (Called /\ OutOfDomainFactor(family)) =>
        /\ riskScore = TableScore(family)
        /\ result \in Messages

\* What the final else of each factor adds for a value outside the domain.
ElseBranchExtra(f) ==
      (IF f.ageGroup \notin 1..NumAgeGroups THEN 3 ELSE 0)
    + (IF f.sleepHours \notin 1..NumSleepCategories THEN 1 ELSE 0)
    + (IF f.exerciseFrequency \notin 1..NumExerciseCategories THEN 1 ELSE 0)

\* C6: a dietType outside 1..6 contributes 0: the score is exactly 1 less
\* than that of the same profile with dietType 6, and the call returns.
C6_DietOutOfRangeContributesZero ==
    (Called /\ family.dietType \notin 1..6) =>
        /\ riskScore = RiskScore([family EXCEPT !.dietType = 6]) - 1
        /\ riskScore = TableScore(family) - TableDiet(family) + ElseBranchExtra(family)
        /\ result \in Messages

\* C6 witness: a call on a profile with dietType 7.
C6_Witness ==
    /\ Called
    /\ family.dietType = 7
    /\ riskScore + 1 = RiskScore([family EXCEPT !.dietType = 6])

\* C7: hasFamilyDisease(i) returns false for every i outside 0..3, and for
\* i in 0..3 the flag last stored at i (false if never set).
C7_HasFamilyDisease ==
    \A n \in 1..Len(ret) :
        ret[n].value = (IF ret[n].diseaseIndex \in 0..3
                        THEN stored[ret[n].diseaseIndex]
                        ELSE FALSE)

\* C7 witness: with all four flags stored true, a query of index 5 returned
\* false.
C7_Witness ==
    /\ Len(ret) = 1
    /\ ret[1].diseaseIndex = 5
    /\ ret[1].value = FALSE
    /\ \A i \in 0..3 : stored[i] /\ family.familyDiseasesHistory[i]

\* C8 as stated: a sampler invoked with min > max surfaces an error to the
\* caller; it neither returns a sample nor brings the process down.
C8_SamplerFailsFast ==
    \A n \in 1..Len(rng) :
        rng[n].min > rng[n].max => rng[n].outcome = "error"

\* C9: family-history contributions are additive and independent: all four
\* flags add exactly 7 over none, and each flag adds its own amount
\* (+2, +1, +2, +2) whatever the other flags are.
C9_FamilyHistoryAdditive ==
    Called =>
        /\ family.familyDiseasesHistory = AllDiseases =>
              riskScore = RiskScore([family EXCEPT !.familyDiseasesHistory = NoDiseases]) + 7
        /\ \A i \in 0..3 :
              family.familyDiseasesHistory[i] =>
                  riskScore = RiskScore([family EXCEPT !.familyDiseasesHistory[i] = FALSE])
                              + TableDiseaseWeight(i)
        /\ riskScore = RiskScore([family EXCEPT !.familyDiseasesHistory = NoDiseases])
                       + TableFamilyHistory(family)

\* C9 witness: a call on a profile with all four flags true.
C9_Witness ==
    /\ Called
    /\ family.familyDiseasesHistory = AllDiseases
    /\ riskScore = RiskScore([family EXCEPT !.familyDiseasesHistory = NoDiseases]) + 7

\* Section 8, the concrete high-risk scenario.
HighRiskProfile == FamilyHealthObject(6, TRUE, 1, 1, 4, TRUE, AllDiseases)

\* C10 as stated: for {ageGroup 6, male, sleep 1, exercise 1, all four
\* diseases, diet 4, smoker} the risk score is 27.
C10_HighRiskScenarioScores27 ==
    (Called /\ family = HighRiskProfile) => riskScore = 27

\* C10 as amended: for that profile the risk score is 25, the sum
\* 3 + 3 + 3 + 3 + (2 + 1 + 2 + 2) + 3 + 3 of the scoring table, and the
\* message is the High one.
C10_HighRiskScenarioScores25 ==
    (Called /\ family = HighRiskProfile) =>
        /\ riskScore = 25
        /\ riskScore = 3 + 3 + 3 + 3 + (2 + 1 + 2 + 2) + 3 + 3
        /\ result = HighMessage

\* C10 witness: the call has run on that profile.
C10_Witness == Called /\ family = HighRiskProfile /\ riskScore = 25

\* What every factor but the age group contributes, by the scoring table.
TableOtherThanAge(f) ==
    TableSexAge(f) + TableSleep(f) + TableExercise(f)
      + TableFamilyHistory(f) + TableDiet(f) + TableSmoking(f)

\* The age-group contribution C11 names for each band.
C11_AgeBand(age) == IF age \in {1, 2} THEN 1 ELSE IF age \in {3, 4} THEN 2 ELSE 3

\* C11: with all other fields fixed, the age-group factor contributes +1
\* for ageGroup 1 and 2, +2 for 3 and 4, +3 for 5 and 6: what the score
\* holds beyond the other six factors is that amount, it is the same for
\* the profile moved from 1 to 2 or from 3 to 4, and one more for the
\* profile moved from 2 to 3.
C11_AgeContribution ==
    (Called /\ InDomain(family)) =>
        LET contrib == riskScore - TableOtherThanAge(family)
            moved == [family EXCEPT !.ageGroup = family.ageGroup + 1]
            movedContrib == RiskScore(moved) - TableOtherThanAge(moved)
        IN  /\ contrib = C11_AgeBand(family.ageGroup)
            /\ family.ageGroup \in {1, 3} => movedContrib = contrib
            /\ family.ageGroup = 2 => (contrib = 1 /\ movedContrib = 2)

\* C11 witness: a call on a profile of age group 2, whose age contribution
\* is 1 and becomes 2 for age group 3.
C11_Witness ==
    /\ Called
    /\ family.ageGroup = 2
    /\ riskScore - TableOtherThanAge(family) = 1
    /\ RiskScore([family EXCEPT !.ageGroup = 3])
         - TableOtherThanAge([family EXCEPT !.ageGroup = 3]) = 2

\* C12: assessHeartHealth has no effect other than writing its five output
\* parameters and returning the message: no step changes the profile it was
\* given, standard output or any other object.
C12_NoOtherEffect ==
    [][UNCHANGED <<family, cout, ret, stored, rng, lastSet>>]_vars

\* C13: after construction and any sequence of setter calls the history
\* holds exactly 4 entries, the label list exactly the 4 labels in their
\* fixed order, and getFamilyHistoryCount() is 4.
C13_FourEntries ==
    /\ DOMAIN family.familyDiseasesHistory = 0..3
    /\ DOMAIN family.familyDiseases = 0..3
    /\ family.familyDiseases[0] = "Heart attack or coronary artery disease"
    /\ family.familyDiseases[1] = "Diabetes (Type 2)"
    /\ family.familyDiseases[2] = "High cholesterol"
    /\ family.familyDiseases[3] = "High blood pressure"
    /\ getFamilyHistoryCount(family) = 4

\* C13 witness: setFamilyDiseaseHistory has just been called with index 4,
\* one past the end, after all four flags were set.
C13_Witness ==
    /\ Len(lastSet) = 1
    /\ lastSet[1].index = 4
    /\ lastSet[1].value = TRUE
    /\ family.familyDiseasesHistory = AllDiseases
    /\ getFamilyHistoryCount(family) = 4

\* C14 as stated: in every reachable state of a profile, right after
\* construction and after any sequence of setter calls, every ordinal
\* field holds a value of its declared domain.
C14_OrdinalsInDomain ==
    /\ family.ageGroup \in 1..6
    /\ family.sleepHours \in 1..5
    /\ family.exerciseFrequency \in 1..4
    /\ family.dietType \in 1..6

\* C15: setFamilyDiseaseHistory(index, value) with index outside 0..3
\* modifies nothing of the profile; with index in 0..3 it changes only the
\* flag at that index.
C15_SetFamilyDiseaseHistoryFrame ==
    \A n \in 1..Len(lastSet) :
        LET c == lastSet[n]
        IN  /\ c.index \notin 0..3 => family = c.before
            /\ c.index \in 0..3 =>
                  family = [c.before EXCEPT !.familyDiseasesHistory[c.index] = c.value]

\* C15 witness: a call with index -1 and value true has just left an object
\* with no flag set as it was.
C15_Witness ==
    /\ Len(lastSet) = 1
    /\ lastSet[1].index = -1
    /\ lastSet[1].value = TRUE
    /\ family = lastSet[1].before
    /\ family.familyDiseasesHistory = NoDiseases

\* C16: when several threads call assessHeartHealth side by side on
\* separate output variables, no sampler is shared: every sample a call has
\* drawn came from a sampler that call owns, no sampler has been drawn from
\* more often than its one owner did, and under every interleaving each
\* output written so far, hence all five of a finished call, lies in the
\* interval of the tier of the call's own profile.
C16_SamplersNotShared ==
    /\ \A t \in DOMAIN thread :
          LET own == TierIntervals(RiskMessage(RiskScore(thread[t].family)))
              written == {FieldOrder[i] : i \in
                            {j \in 1..Len(FieldOrder) :
                                j < thread[t].at \/ thread[t].pc \in {"return", "done"}}}
          IN  /\ \A k \in written :
                    /\ thread[t].from[k] = t
                    /\ own[k][1] <= thread[t].out[k]
                    /\ thread[t].out[k] <= own[k][2]
              /\ thread[t].pc = "done" =>
                    /\ written = ReadingFields
                    /\ thread[t].result = RiskMessage(RiskScore(thread[t].family))
    /\ \A a \in DOMAIN samplers :
          /\ samplers[a].draws <= 1
          /\ \A b \in DOMAIN samplers : samplers[a].owner = samplers[b].owner => a = b

\* C16 witness: a Low call and a High call are both in flight: each has
\* written two outputs and constructed its third sampler, and both
\* samplers are live, unused and of different ranges.
C16_Witness ==
    /\ DOMAIN thread = {1, 2}
    /\ thread[1].pc = "generate" /\ thread[1].at = 3
    /\ thread[2].pc = "generate" /\ thread[2].at = 3
    /\ RiskMessage(thread[1].riskScore) = LowMessage
    /\ RiskMessage(thread[2].riskScore) = HighMessage
    /\ thread[1].out.heartRate = 7999
    /\ thread[2].out.sysBP = 15999
    /\ samplers[1] = [owner |-> 1, min |-> 7000, max |-> 8000, draws |-> 0]
    /\ samplers[2] = [owner |-> 2, min |-> 9000, max |-> 11000, draws |-> 0]

\* The tier of a score, as the name the screen gives it.
TierOfScore(score) == IF score < 10 THEN "low" ELSE IF score < 18 THEN "moderate" ELSE "high"

\* C17: after displayResults(profile) the screen's current risk is "low",
\* "moderate" or "high" and is exactly the tier of the profile's score; the
\* match on the message text never falls through to the empty risk.
C17_CurrentRiskIsTier ==
    (DOMAIN trace # {} /\ trace.op = "displayResults") =>
        /\ screen.m_currentRisk \in {"low", "moderate", "high"}
        /\ screen.m_currentRisk = TierOfScore(cout[Len(cout) - 1])
        /\ screen.resultLabel = RiskMessage(cout[Len(cout) - 1])

\* C17 witness: a profile scoring below 10 has just been displayed: the
\* label shows the Low message with its trailing sentence and the risk is
\* "low".
C17_Witness ==
    /\ DOMAIN trace # {}
    /\ trace.op = "displayResults"
    /\ cout[Len(cout) - 1] < 10
    /\ screen.resultLabel = "Low risk of heart disease. You are healthy!"
    /\ screen.m_currentRisk = "low"

\* The beep timers of the screen that are running.
ActiveBeepTimers ==
    {t \in DOMAIN timers : t # screen.liveTimer /\ timers[t].active}

\* C18: after any sequence of displayResults, reset and goBackToMain calls,
\* a beep timer is active only while the current risk is "high", and at
\* most one beep timer is active; a displayResults that yields Low or
\* Moderate leaves no beep timer running.
C18_BeepOnlyWhileHigh ==
    DOMAIN trace # {} =>
        /\ ActiveBeepTimers # {} => screen.m_currentRisk = "high"
        /\ Cardinality(ActiveBeepTimers) <= 1

\* C19: after reset() the result text, heart-rate text, current risk, chart
\* series, currentX, liveDataIndex, liveDataLines, beep timer and user name
\* all have the values they had right after construction.
C19_ResetRestoresInitialState ==
    (DOMAIN trace # {} /\ trace.op = "reset") =>
        /\ screen.resultLabel = HeartHealthScreen_HeartHealthScreen("").resultLabel
        /\ screen.heartRateLabel = HeartHealthScreen_HeartHealthScreen("").heartRateLabel
        /\ screen.m_currentRisk = HeartHealthScreen_HeartHealthScreen("").m_currentRisk
        /\ screen.heartRateSeries = HeartHealthScreen_HeartHealthScreen("").heartRateSeries
        /\ screen.currentX = HeartHealthScreen_HeartHealthScreen("").currentX
        /\ screen.liveDataIndex = HeartHealthScreen_HeartHealthScreen("").liveDataIndex
        /\ screen.liveDataLines = HeartHealthScreen_HeartHealthScreen("").liveDataLines
        /\ screen.m_beepTimer = HeartHealthScreen_HeartHealthScreen("").m_beepTimer
        /\ timers = InitialTimers
        /\ screen.user = HeartHealthScreen_HeartHealthScreen("").user

\* C20: each survey submission causes exactly one assessment:
\* displayResults runs exactly once for it, and exactly 20 heart-rate rows
\* of the current user are appended to userdata.csv.
C20_OneAssessmentPerSubmission ==
    (DOMAIN trace # {} /\ trace.op = "submitSurvey") =>
        /\ trace.displays = 1
        /\ trace.rows = NumRows

\* s is a leading part of t.
IsPrefix(s, t) == Len(s) <= Len(t) /\ SubSeq(t, 1, Len(s)) = s

\* C21: displayResults never loses existing content of userdata.csv: every
\* line that was in the file before the call is still there after it, in
\* the same order, followed by the new rows; also when the file cannot be
\* opened for reading but can be opened for writing.
C21_ExistingLinesKept ==
    [][trace'.total = trace.total + 1 => IsPrefix(userdata.lines, userdata'.lines)]_vars

\* The mail reached the server: the connection stood and the server
\* accepted each of the nine commands.
SentSuccessfully(m) ==
    /\ m.connected
    /\ Len(m.dialogue) = Len(SmtpCommands)
    /\ \A i \in 1..Len(m.dialogue) : m.dialogue[i] = "accepted"

\* C22: sendEmail returns true only if the email was sent successfully, and
\* false if a variable is missing, the connection fails, or any of the nine
\* commands meets a failed write, a missing reply or a rejection.
C22_TrueOnlyIfSent ==
    mail.called => (mail.returned <=> SentSuccessfully(mail))

\* The row of userdata.csv that attemptLogin accepts for account and
\* password: a line after the header with exactly two fields, the first
\* equal to the account ignoring case, the second equal to the password.
MatchingRow(account, password) ==
    \E i \in 2..Len(userdata.lines) :
        /\ Len(userdata.lines[i]) = 2
        /\ ToLower(userdata.lines[i][1]) = ToLower(account)
        /\ userdata.lines[i][2] = password

\* loginSuccessful(account) is emitted only for a password of more than 4
\* characters with a letter and a digit that has its row in a readable file.
EmittedOnlyIfValid(attempt) ==
    attempt.emitted # <<>> =>
        /\ attempt.emitted = <<attempt.account>>
        /\ length(attempt.entered) > 4
        /\ \E i \in 1..length(attempt.entered) : isLetter(Chars(attempt.entered)[i])
        /\ \E i \in 1..length(attempt.entered) : isDigit(Chars(attempt.entered)[i])
        /\ CanRead(userdata)
        /\ MatchingRow(attempt.account, attempt.entered)

\* C24 as stated: attemptLogin emits loginSuccessful(account) only if the
\* entered password is longer than 4 characters with a letter and a digit
\* and a two-field row after the header has the account (ignoring case) and
\* the password (exactly); on every path the password field is cleared and
\* the account selection is at index 0 afterwards.
C24_LoginOnlyIfValid_ResetToIndex0 ==
    trace.op = "attemptLogin" =>
        /\ EmittedOnlyIfValid(login.last)
        /\ login.passwordField = ""
        /\ login.currentIndex = 0

\* C24, amended: as above, but the selection is at index 0 when the account
\* list has an item; with an empty list setCurrentIndex(0) leaves the combo
\* box without a selection (index -1).
C24_LoginOnlyIfValid ==
    trace.op = "attemptLogin" =>
        /\ EmittedOnlyIfValid(login.last)
        /\ login.passwordField = ""
        /\ login.currentIndex = IF login.accounts = <<>> THEN -1 ELSE 0

\* The account alice was selected at index 1, "pass1 " typed, and the row
\* of Alice let the login succeed; the field is empty and index 0 selected.
C24_Witness ==
    /\ trace.op = "attemptLogin"
    /\ login.last = [account |-> "alice", entered |-> "pass1",
                     emitted |-> <<"alice">>, warned |-> FALSE, box |-> ""]
    /\ login.accounts = <<"Alice", "alice">>
    /\ login.passwordField = ""
    /\ login.currentIndex = 0

\* The credentials are those of a registration row of a readable file.
CredentialsOnFile(account, password) ==
    /\ CanRead(userdata)
    /\ \E i \in 2..Len(userdata.lines) :
          /\ Len(userdata.lines[i]) = 2
          /\ ToLower(userdata.lines[i][1]) = ToLower(account)
          /\ userdata.lines[i][2] = password

\* C23: attemptSendAlert calls EmailSender::sendEmail only when account,
\* password and recipient are all non-empty and the credentials are those of
\* a registration row; when a field is empty, the credentials are wrong or
\* userdata.csv cannot be opened, sendEmail is not called, the record of the
\* mailer is as before, and the handler leaves after a warning box.
C23_AlertOnlyAfterChecks ==
    [][trace'.op = "attemptSendAlert" =>
        LET a == notify'.last
            checked == /\ a.account # ""
                       /\ a.entered # ""
                       /\ a.recipient # ""
                       /\ CredentialsOnFile(a.account, a.entered)
        IN  /\ a.sendEmail => checked /\ mail'.called /\ mail'.to = a.recipient
            /\ ~checked => /\ ~a.sendEmail
                           /\ mail' = mail
                           /\ a.box \in {"Input Error", "Authentication Failed",
                                        "File Error"}
                           /\ window'.modal.title = a.box]_vars

\* Alice's credentials were verified and the alert for her, High on
\* average, went to the mailer.
C23_Witness ==
    /\ trace.op = "attemptSendAlert"
    /\ notify.last.account = "alice"
    /\ notify.last.entered = "pass1"
    /\ notify.last.sendEmail
    /\ mail.called
    /\ mail.to = "c@d.e"
    /\ mail.body[Len(mail.body)] = "High"

\* C25: from no userdata.csv, no two registrations that saveUserData has
\* accepted (each wrote its row and emitted surveyLoginSuccessful) have
\* names that are equal ignoring case, and no two two-field rows of the
\* file have: a registration with a used name is rejected.
C25_UsernamesUnique ==
    /\ \A i, j \in 1..Len(survey.accepted) :
          ToLower(survey.accepted[i][1]) = ToLower(survey.accepted[j][1]) => i = j
    /\ \A i, j \in 2..Len(userdata.lines) :
          (/\ Len(userdata.lines[i]) = 2
           /\ Len(userdata.lines[j]) = 2
           /\ ToLower(userdata.lines[i][1]) = ToLower(userdata.lines[j][1])) => i = j

\* The login screen with the account u selected and p typed.
LoginAs(u, p) ==
    [login EXCEPT
        !.currentIndex = (CHOOSE i \in 1..Len(login.accounts) : login.accounts[i] = u) - 1,
        !.passwordField = p]

\* C26: on the login screen, whose list updateAccounts has just built, each
\* accepted registration u, p has u in the list, and attemptLogin with u
\* selected and p typed emits loginSuccessful(u).
C26_RegistrationLoginRoundTrip ==
    window.current = "login" =>
        \A k \in 1..Len(survey.accepted) :
            LET u == survey.accepted[k][1]
                p == survey.accepted[k][2]
            IN  /\ \E i \in 1..Len(login.accounts) : login.accounts[i] = u
                /\ AttemptLogin(LoginAs(u, p), userdata).last.emitted = <<u>>

\* The tiers in rising order.
TierRank(score) ==
    CASE TierOfScore(score) = "low" -> 1
      [] TierOfScore(score) = "moderate" -> 2
      [] TierOfScore(score) = "high" -> 3

\* The four fields the tiers order.
OrderedFields == {"heartRate", "sysBP", "diasBP", "cholesterol"}

\* For each score of a profile, the values assessHeartHealth can produce
\* for heartRate, sysBP, diasBP and cholesterol: the bottom of the range,
\* points inside it and the last value before its top.
ProducedValues ==
    [s \in {RiskScore(f) : f \in SampleProfiles} |->
        [k \in OrderedFields |->
            Sample(SensorRanges(s)[k][1], SensorRanges(s)[k][2])]]

\* C27: in every reading returned by assessHeartHealth the diastolic
\* pressure is strictly below the systolic one, and each of heartRate,
\* sysBP, diasBP and cholesterol is at most any value the call produces for
\* a profile of a higher tier, and at least any value it produces for a
\* profile of a lower tier.  The ranges the call samples say the same of
\* every value between their ends: the diastolic range ends below the start
\* of the systolic one, and the range of a field ends no higher than the
\* range of that field starts in a higher tier.
C27_DiastolicBelowSystolic_TiersOrdered ==
    Called =>
        /\ reading.diasBP < reading.sysBP
        /\ SensorRanges(riskScore).diasBP[2] < SensorRanges(riskScore).sysBP[1]
        /\ \A s \in DOMAIN ProducedValues :
              \A k \in OrderedFields :
                  /\ TierRank(riskScore) < TierRank(s) =>
                        /\ SensorRanges(riskScore)[k][2] <= SensorRanges(s)[k][1]
                        /\ \A v \in ProducedValues[s][k] : reading[k] <= v
                  /\ TierRank(riskScore) > TierRank(s) =>
                        /\ SensorRanges(s)[k][2] <= SensorRanges(riskScore)[k][1]
                        /\ \A v \in ProducedValues[s][k] : reading[k] >= v

\* A Low reading at the top of its ranges: heart rate 79.99, the last
\* value before the 80 where the Moderate range starts, and diastolic
\* 79.99 under systolic 110, the lowest of its range.
C27_Witness ==
    /\ Called
    /\ TierOfScore(riskScore) = "low"
    /\ reading.heartRate = 7999
    /\ reading.diasBP = 7999
    /\ reading.sysBP = 11000
    /\ \E f \in SampleProfiles :
          /\ TierOfScore(RiskScore(f)) = "moderate"
          /\ 8000 \in ProducedValues[RiskScore(f)].heartRate

====================
